---- MODULE Spec2Model ----
(***************************************************************************)
(* Model of titus-transmitter's consistency core:                          *)
(*   - SWRCache (lib/cache/SWRCache): stale-while-revalidate cache with    *)
(*     request deduplication and background refresh;                       *)
(*   - HookStateRepository (versioned store): optimistic-concurrency       *)
(*     writes guarded by a version read through an SWRCache.               *)
(*                                                                         *)
(* JavaScript runs each handler synchronously up to its first await on a   *)
(* pending promise, so every action below is one such synchronous run:     *)
(* a call's start, a store round trip being applied, a response arriving.  *)
(***************************************************************************)
EXTENDS Integers, Sequences, FiniteSets, TLC

(* ---------------- bounds ---------------- *)
MaxVal == 1
MaxInFlight == 2
MaxCallers == 2
MaxVersion == 4
MaxRaceVersion == 3
MaxPhrases == 2
MaxTime == 2
MaxTimedVersion == 2
MaxEnsureVersion == 3
MaxForceVersion == 2
MaxSubs == 2
MaxRuns == 2

(* ---------------- value domains ---------------- *)
\* JavaScript null
Null == -1
\* what a generic fetcher may resolve to: null, the falsy 0, truthy 1..MaxVal
Values == {Null} \cup (0..MaxVal)
Keys == {"a", "b"}
Callers == 1..MaxCallers
Slots == 1..MaxInFlight
Payloads == {[webhookUrl |-> "u1", secretToken |-> "s1"],
             [webhookUrl |-> "u2", secretToken |-> "s2"]}
NoRecord == [version |-> 0]

VARIABLES
  cache,     \* SWRCache.cache: key -> CacheEntry (only the keys present)
  inv,       \* the fetcher invocations in flight (the pending promises)
  callers,   \* the get() calls: what each awaits / received
  lastOp,    \* the most recent operation on the stand-alone cache (history)
  store,     \* the backing collection: botId -> record or NoRecord
  rcalls,    \* the repository calls in progress
  hist,      \* per subject: the calls that modified its record (history)
  tcalls,    \* the Telegram client's calls in progress
  clock,     \* the wall clock that `new Date()` reads
  probe,     \* the argument and the result of a detectWebhookChange() call
  poll,      \* HookStatePoller's fields and the poller it wraps
  pcalls,    \* the start() / stop() calls in progress
  hooks,     \* the hook_states collection: botId -> document or NoHook
  tick,      \* the fetchData() run of the current tick
  runs,      \* the onData() runs in progress
  plog       \* the error the last step of the poller ran into, and who got it

vars == <<cache, inv, callers, lastOp, store, rcalls, hist, tcalls, clock, probe,
          poll, pcalls, hooks, tick, runs, plog>>
cacheVars == <<cache, inv, callers>>
repoVars == <<store, rcalls, hist>>
tgVars == <<tcalls, clock, probe>>
pollVars == <<poll, pcalls, hooks, tick, runs, plog>>

(* ---------------- SWRCache ---------------- *)
\* JavaScript truthiness of a cached value: null and 0 are falsy
Truthy(v) == v # Null /\ v # 0

\* `x || null`
OrNull(v) == IF Truthy(v) THEN v ELSE Null

\* CacheEntry { data, promise?, refreshing? }; promise 0 is "no promise"
Entry(d, p, r) == [data |-> d, promise |-> p, refreshing |-> r]

\* this.cache.set(key, entry)
MapSet(m, k, e) == [x \in (DOMAIN m) \cup {k} |-> IF x = k THEN e ELSE m[x]]

\* this.cache.delete(key)
MapDelete(m, k) == [x \in (DOMAIN m) \ {k} |-> m[x]]

EmptyMap == [x \in {} |-> Entry(Null, 0, FALSE)]

\* A fetcher invocation, i.e. the promise this.fetcher(...args) returned.
\* `before` is the data of the `cached` entry that refreshInBackground holds
\* on to while it awaits; value is what the fetcher has read from the store
\* and not yet delivered. A settled promise is referenced by nobody (its
\* awaiters are resumed and its cache entry replaced), so its slot is free.
Invocation(k, kind, before) ==
  [key |-> k, kind |-> kind, status |-> "pending", value |-> Null,
   before |-> before]

FreeSlot == [key |-> "", kind |-> "none", status |-> "free", value |-> Null,
             before |-> Null]

IdleCaller == [status |-> "idle", inv |-> 0, value |-> Null]

InFlight(k) == {i \in Slots : inv[i].key = k /\ inv[i].status # "free"}

HasFree == \E i \in Slots : inv[i].status = "free"

NewSlot == CHOOSE i \in Slots :
             /\ inv[i].status = "free"
             /\ \A j \in Slots : inv[j].status = "free" => i <= j

\* get(): `cached && cached.data !== null`
IsHit(k) == k \in DOMAIN cache /\ cache[k].data # Null

\* refreshInBackground(): guard `cached?.promise || cached?.refreshing`
RefreshSkipped(k) ==
  k \in DOMAIN cache /\ (cache[k].promise # 0 \/ cache[k].refreshing)

\* mutant: fetchAndCache() never finds the pending request
HasPendingNever(k) == FALSE

\* fetchAndCache(): guard `cached?.promise`
HasPending(k) == k \in DOMAIN cache /\ cache[k].promise # 0

\* does get(k) call the fetcher in the current state
GetInvokes(k) == IF IsHit(k) THEN ~RefreshSkipped(k) ELSE ~HasPending(k)

\* The synchronous part of get(...args) for caller c: the cache lookup, then
\* either refreshInBackground up to its await and `return cached.data`, or
\* fetchAndCache up to its await.
CacheGet(c, k) ==
  /\ GetInvokes(k) => HasFree
  /\ IF IsHit(k)
       THEN /\ IF RefreshSkipped(k)
                 THEN UNCHANGED <<cache, inv>>
                 ELSE /\ cache' = MapSet(cache, k,
                                    Entry(OrNull(cache[k].data), 0, TRUE))
                      /\ inv' = [inv EXCEPT ![NewSlot] =
                                    Invocation(k, "refresh", cache[k].data)]
            /\ callers' = [callers EXCEPT ![c] =
                 [status |-> "returned", inv |-> 0, value |-> cache[k].data]]
       ELSE IF HasPending(k)
         THEN /\ UNCHANGED <<cache, inv>>
              /\ callers' = [callers EXCEPT ![c] =
                   [status |-> "awaiting", inv |-> cache[k].promise,
                    value |-> Null]]
         ELSE /\ inv' = [inv EXCEPT ![NewSlot] = Invocation(k, "fetch", Null)]
              /\ cache' = MapSet(cache, k, Entry(Null, NewSlot, FALSE))
              /\ callers' = [callers EXCEPT ![c] =
                   [status |-> "awaiting", inv |-> NewSlot, value |-> Null]]

\* set(data, ...args)
CacheSet(v, k) ==
  /\ cache' = MapSet(cache, k, Entry(v, 0, FALSE))

\* the get() calls awaiting promise f
Awaiting(f) == {c \in Callers : callers[c].status = "awaiting" /\ callers[c].inv = f}

\* every caller awaiting promise f is settled with it
Settle(f, status, v) ==
  [c \in Callers |->
     IF c \in Awaiting(f)
       THEN [status |-> status, inv |-> 0, value |-> v]
       ELSE callers[c]]

\* fetchAndCache(): `const data = await promise; this.cache.set(key, {data})`
FetchResolved(f, v) ==
  /\ inv[f].kind = "fetch"
  /\ inv' = [inv EXCEPT ![f] = FreeSlot]
  /\ cache' = MapSet(cache, inv[f].key, Entry(v, 0, FALSE))
  /\ callers' = Settle(f, "returned", v)

\* mutant: the catch block rethrows without evicting the key
FetchRejectedKeepsKey(f) ==
  /\ inv[f].kind = "fetch"
  /\ inv' = [inv EXCEPT ![f] = FreeSlot]
  /\ cache' = cache
  /\ callers' = Settle(f, "threw", Null)

\* fetchAndCache(): `catch { this.cache.delete(key); throw error }`
FetchRejected(f) ==
  /\ inv[f].kind = "fetch"
  /\ inv' = [inv EXCEPT ![f] = FreeSlot]
  /\ cache' = MapDelete(cache, inv[f].key)
  /\ callers' = Settle(f, "threw", Null)

\* mutant: a resolved refresh puts back the value cached before it
RefreshResolvedKeepsOld(f, v) ==
  /\ inv[f].kind = "refresh"
  /\ inv' = [inv EXCEPT ![f] = FreeSlot]
  /\ cache' = MapSet(cache, inv[f].key, Entry(inv[f].before, 0, FALSE))
  /\ UNCHANGED callers

\* refreshInBackground(): `const data = await this.fetcher(...)` resolved
RefreshResolved(f, v) ==
  /\ inv[f].kind = "refresh"
  /\ inv' = [inv EXCEPT ![f] = FreeSlot]
  /\ cache' = MapSet(cache, inv[f].key, Entry(v, 0, FALSE))
  /\ UNCHANGED callers

\* refreshInBackground(): the catch block restores `cached?.data || null`
RefreshRejected(f) ==
  /\ inv[f].kind = "refresh"
  /\ inv' = [inv EXCEPT ![f] = FreeSlot]
  /\ cache' = MapSet(cache, inv[f].key, Entry(OrNull(inv[f].before), 0, FALSE))
  /\ UNCHANGED callers

(* ---- the cache used on its own, with an arbitrary fetcher ---- *)
Get(c, k) ==
  /\ callers[c].status # "awaiting"
  /\ CacheGet(c, k)
  /\ lastOp' = [op |-> "get", key |-> k, by |-> {c}]
  /\ UNCHANGED repoVars
  /\ UNCHANGED tgVars
  /\ UNCHANGED pollVars

Set(v, k) ==
  /\ CacheSet(v, k)
  /\ lastOp' = [op |-> "set", key |-> k, by |-> {}]
  /\ UNCHANGED <<inv, callers>>
  /\ UNCHANGED repoVars
  /\ UNCHANGED tgVars
  /\ UNCHANGED pollVars

Delete(k) ==
  /\ cache' = MapDelete(cache, k)
  /\ lastOp' = [op |-> "delete", key |-> k, by |-> {}]
  /\ UNCHANGED <<inv, callers>>
  /\ UNCHANGED repoVars
  /\ UNCHANGED tgVars
  /\ UNCHANGED pollVars

Clear ==
  /\ cache' = EmptyMap
  /\ lastOp' = [op |-> "clear", key |-> "", by |-> {}]
  /\ UNCHANGED <<inv, callers>>
  /\ UNCHANGED repoVars
  /\ UNCHANGED tgVars
  /\ UNCHANGED pollVars

FetchResolve(f, v) ==
  /\ inv[f].status = "pending"
  /\ FetchResolved(f, v)
  /\ lastOp' = [op |-> "fetched", key |-> inv[f].key, by |-> Awaiting(f)]
  /\ UNCHANGED repoVars
  /\ UNCHANGED tgVars
  /\ UNCHANGED pollVars

FetchReject(f) ==
  /\ inv[f].status = "pending"
  /\ FetchRejected(f)
  /\ lastOp' = [op |-> "fetchFailed", key |-> inv[f].key, by |-> Awaiting(f)]
  /\ UNCHANGED repoVars
  /\ UNCHANGED tgVars
  /\ UNCHANGED pollVars

RefreshResolve(f, v) ==
  /\ inv[f].status = "pending"
  /\ RefreshResolved(f, v)
  /\ lastOp' = [op |-> "refreshed", key |-> inv[f].key, by |-> {}]
  /\ UNCHANGED repoVars
  /\ UNCHANGED tgVars
  /\ UNCHANGED pollVars

RefreshReject(f) ==
  /\ inv[f].status = "pending"
  /\ RefreshRejected(f)
  /\ lastOp' = [op |-> "refreshFailed", key |-> inv[f].key, by |-> {}]
  /\ UNCHANGED repoVars
  /\ UNCHANGED tgVars
  /\ UNCHANGED pollVars

(* ---------------- HookStateRepository ---------------- *)
Bots == {"a"}

IdleCall == [op |-> "none", pc |-> "idle", botId |-> "", payload |-> {},
             modified |-> FALSE, success |-> FALSE, raced |-> 0,
             apiCallAt |-> 0, apiRespAt |-> 0, conflict |-> FALSE,
             reason |-> ""]

\* a repository method may be entered by call slot c
CanStart(c) ==
  /\ rcalls[c].pc \in {"idle", "done", "threw"}
  /\ callers[c].status # "awaiting"
  /\ tcalls[c].pc \in {"idle", "done", "threw"}

\* History: 0, or the currentVersion V of call c when c issues its conditional
\* write while another update() of the same subject holds the same V and has
\* not written yet, or after such a call has written.
Raced(c) ==
  IF \E d \in Callers \ {c} :
       /\ rcalls[d].op = "update" /\ rcalls[c].op = "update"
       /\ rcalls[d].botId = rcalls[c].botId
       /\ \/ /\ rcalls[d].pc = "version"
             /\ callers[d].status = "returned"
             /\ callers[d].value = callers[c].value
          \/ /\ rcalls[d].pc \in {"written", "done"}
             /\ rcalls[d].raced = callers[c].value
    THEN callers[c].value
    ELSE 0

\* call slot c enters a method: its record is replaced (and the history of
\* races with the call that occupied the slot is forgotten)
Enter(c, rec) ==
  [d \in Callers |-> IF d = c THEN rec ELSE [rcalls[d] EXCEPT !.raced = 0]]

\* the document insertOne() writes in create() and in update()'s fallback;
\* apiCallAt / apiRespAt 0: the field does not exist
NewRecord(p) ==
  [version |-> 1, webhookUrl |-> p.webhookUrl, secretToken |-> p.secretToken,
   failed |-> FALSE, apiCallAt |-> 0, apiRespAt |-> 0]

\* mutant: no unique index, insertOne() replaces the subject's record
DuplicateKeyNever(b) == FALSE

\* initialize(): the unique index on botId refuses a second record (E11000)
DuplicateKey(b) == store[b] # NoRecord

\* mutant: the fetcher answers with the version the record was created with
StoredVersionAtCreation(b) == IF store[b] = NoRecord THEN Null ELSE 1

\* the fetcher of getCurrentVersion: findOne({botId}) then
\* `result?.version || null`
StoredVersion(b) ==
  IF store[b] = NoRecord THEN Null ELSE OrNull(store[b].version)

\* The value `version: { $inc: 1 }` inside $set stores: the embedded
\* document {$inc: 1}, not a number.
VersionDoc == -2

\* `currentVersion + 1`: addition on a number; on the document it is the
\* string "[object Object]1" (-3), on that string "[object Object]11" (-4), ...
JsPlusOne(v) == IF v >= 0 THEN v + 1 ELSE v - 1

\* how far a cached version is from a fresh one (numbers, and the 1s appended)
Magnitude(v) == IF v >= 0 THEN v ELSE IF v = Null THEN 0 ELSE (-v) - 2

\* filter {botId, version: currentVersion} with the document as the version:
\* the store rejects the query (unknown operator $inc) and updateOne() throws
BadFilter(cv) == cv = VersionDoc

\* mutant: the filter matches on botId alone
MatchesAnyVersion(b, cv) == store[b] # NoRecord

\* filter {botId, version: currentVersion} of updateOne()
Matches(b, cv) == store[b] # NoRecord /\ store[b].version = cv

\* update(): the $set document applied to the matched record
UpdatedRecord(rec, p, cv) ==
  [rec EXCEPT !.webhookUrl = p.webhookUrl, !.secretToken = p.secretToken,
              !.failed = FALSE, !.version = cv + 1]

\* mutant: the $set document wipes the secret token as well
FailedRecordDropsToken(rec, cv) ==
  [rec EXCEPT !.failed = TRUE, !.version = cv + 1, !.secretToken = ""]

\* mutant: the $set document leaves version out
FailedRecordNoBump(rec, cv) == [rec EXCEPT !.failed = TRUE]

\* setWebhookFailed(): the $set document applied to the matched record
FailedRecord(rec, cv) == [rec EXCEPT !.failed = TRUE, !.version = cv + 1]

\* create(): insertOne() on the collection with the unique botId index; a
\* second record for the subject is refused with a duplicate-key error
Create(c, b, p) ==
  /\ CanStart(c)
  /\ IF ~DuplicateKey(b)
       THEN /\ store' = [store EXCEPT ![b] = NewRecord(p)]
            /\ hist' = [hist EXCEPT ![b] = @ \cup {"create"}]
            /\ rcalls' = Enter(c,
                 [IdleCall EXCEPT !.op = "create", !.pc = "done", !.botId = b,
                                  !.payload = p, !.modified = TRUE])
       ELSE /\ UNCHANGED <<store, hist>>
            /\ rcalls' = Enter(c,
                 [IdleCall EXCEPT !.op = "create", !.pc = "threw", !.botId = b,
                                  !.payload = p])
  /\ callers' = [callers EXCEPT ![c] = IdleCaller]
  /\ UNCHANGED <<cache, inv, lastOp>>
  /\ UNCHANGED tgVars
  /\ UNCHANGED pollVars

\* update(): up to `await this.getCurrentVersion(botId)`; cap bounds the model
UpdateStart(c, b, p, cap) ==
  /\ CanStart(c)
  /\ store[b].version < cap
  /\ CacheGet(c, b)
  /\ rcalls' = Enter(c,
       [IdleCall EXCEPT !.op = "update", !.pc = "version", !.botId = b,
                        !.payload = p])
  /\ UNCHANGED <<store, hist, lastOp>>
  /\ UNCHANGED tgVars
  /\ UNCHANGED pollVars

\* update(): the store round trip, applied by the store as one operation:
\* insertOne() when currentVersion === null, else the conditional updateOne()
UpdateWrite(c) ==
  LET b == rcalls[c].botId
      p == rcalls[c].payload
      cv == callers[c].value
  IN /\ rcalls[c].op = "update" /\ rcalls[c].pc = "version"
     /\ callers[c].status = "returned"
     /\ IF cv = Null
          THEN IF ~DuplicateKey(b)
                 THEN /\ store' = [store EXCEPT ![b] = NewRecord(p)]
                      /\ hist' = [hist EXCEPT ![b] = @ \cup {"update"}]
                      /\ rcalls' = [rcalls EXCEPT ![c].pc = "written",
                                      ![c].modified = TRUE]
                      /\ UNCHANGED callers
                 ELSE /\ UNCHANGED <<store, hist>>
                      /\ rcalls' = [rcalls EXCEPT ![c].pc = "threw"]
                      /\ callers' = [callers EXCEPT ![c] = IdleCaller]
          ELSE IF BadFilter(cv)
            THEN /\ UNCHANGED <<store, hist>>
                 /\ rcalls' = [rcalls EXCEPT ![c].pc = "threw"]
                 /\ callers' = [callers EXCEPT ![c] = IdleCaller]
          ELSE /\ IF Matches(b, cv)
                    THEN /\ store' = [store EXCEPT ![b] = UpdatedRecord(@, p, cv)]
                         /\ hist' = [hist EXCEPT ![b] = @ \cup {"update"}]
                    ELSE UNCHANGED <<store, hist>>
               /\ rcalls' = [rcalls EXCEPT ![c].pc = "written",
                               ![c].modified = Matches(b, cv),
                               ![c].raced = Raced(c)]
               /\ UNCHANGED callers
     /\ UNCHANGED <<cache, inv, lastOp>>
     /\ UNCHANGED tgVars
     /\ UNCHANGED pollVars

\* update(): after the round trip: this.getCurrentVersion.set(...) when the
\* write was applied, then the {success} result
UpdateReturn(c) ==
  LET b == rcalls[c].botId
      cv == callers[c].value
  IN /\ rcalls[c].op = "update" /\ rcalls[c].pc = "written"
     /\ IF rcalls[c].modified
          THEN CacheSet(IF cv = Null THEN 1 ELSE cv + 1, b)
          ELSE UNCHANGED cache
     /\ rcalls' = [rcalls EXCEPT ![c].pc = "done",
                                 ![c].success = rcalls[c].modified]
     /\ callers' = [callers EXCEPT ![c] = IdleCaller]
     /\ UNCHANGED <<inv, store, hist, lastOp>>
     /\ UNCHANGED tgVars
     /\ UNCHANGED pollVars

\* setWebhookFailed(): up to `await this.getCurrentVersion(botId)`
SetWebhookFailedBegin(c, b) ==
  /\ CacheGet(c, b)
  /\ rcalls' = Enter(c,
       [IdleCall EXCEPT !.op = "setWebhookFailed", !.pc = "version",
                        !.botId = b])
  /\ UNCHANGED <<store, hist, lastOp>>

\* setWebhookFailed() called on the repository; cap bounds the model
SetWebhookFailedStart(c, b, cap) ==
  /\ CanStart(c)
  /\ store[b].version < cap
  /\ SetWebhookFailedBegin(c, b)
  /\ UNCHANGED tgVars
  /\ UNCHANGED pollVars

\* setWebhookFailed(): `if (currentVersion === null) return`, else the
\* conditional updateOne(), applied by the store as one operation
SetWebhookFailedWrite(c) ==
  LET b == rcalls[c].botId
      cv == callers[c].value
  IN /\ rcalls[c].op = "setWebhookFailed" /\ rcalls[c].pc = "version"
     /\ callers[c].status = "returned"
     /\ IF cv = Null
          THEN /\ UNCHANGED <<store, hist>>
               /\ rcalls' = [rcalls EXCEPT ![c].pc = "done"]
               /\ callers' = [callers EXCEPT ![c] = IdleCaller]
          ELSE IF BadFilter(cv)
            THEN /\ UNCHANGED <<store, hist>>
                 /\ rcalls' = [rcalls EXCEPT ![c].pc = "threw"]
                 /\ callers' = [callers EXCEPT ![c] = IdleCaller]
          ELSE /\ IF Matches(b, cv)
                    THEN /\ store' = [store EXCEPT ![b] = FailedRecord(@, cv)]
                         /\ hist' = [hist EXCEPT ![b] = @ \cup {"setWebhookFailed"}]
                    ELSE UNCHANGED <<store, hist>>
               /\ rcalls' = [rcalls EXCEPT ![c].pc = "written",
                               ![c].modified = Matches(b, cv)]
               /\ UNCHANGED callers
     /\ UNCHANGED <<cache, inv, lastOp>>
     /\ UNCHANGED tgVars
     /\ UNCHANGED pollVars

\* setWebhookFailed(): after the round trip
SetWebhookFailedReturn(c) ==
  LET b == rcalls[c].botId
      cv == callers[c].value
  IN /\ rcalls[c].op = "setWebhookFailed" /\ rcalls[c].pc = "written"
     /\ IF rcalls[c].modified
          THEN CacheSet(cv + 1, b)
          ELSE UNCHANGED cache
     /\ rcalls' = [rcalls EXCEPT ![c].pc = "done"]
     /\ callers' = [callers EXCEPT ![c] = IdleCaller]
     /\ UNCHANGED <<inv, store, hist, lastOp>>
     /\ UNCHANGED tgVars
     /\ UNCHANGED pollVars

(* ---- the timestamp-ordered write path ---- *)
Times == 1..MaxTime

\* mutant: createWithTiming() inserts the record as failed
NewTimedRecordFailed(p, t, tr) ==
  [NewRecord(p) EXCEPT !.apiCallAt = t, !.apiRespAt = tr, !.failed = TRUE]

\* createWithTiming(): the document insertOne() writes
NewTimedRecord(p, t, tr) ==
  [NewRecord(p) EXCEPT !.apiCallAt = t, !.apiRespAt = tr]

\* mutant: the $set document leaves failed out
TimedRecordKeepsFailed(rec, p, t, tr) ==
  [rec EXCEPT !.webhookUrl = p.webhookUrl, !.secretToken = p.secretToken,
              !.apiCallAt = t, !.apiRespAt = tr, !.version = VersionDoc]

\* updateWithTiming() / forceUpdateWithTiming(): the $set document applied to
\* the matched record; `version: { $inc: 1 }` is a value here, not an operator
TimedRecord(rec, p, t, tr) ==
  [rec EXCEPT !.webhookUrl = p.webhookUrl, !.secretToken = p.secretToken,
              !.failed = FALSE, !.apiCallAt = t, !.apiRespAt = tr,
              !.version = VersionDoc]

\* mutant: the filter of updateWithTiming() matches on botId alone
TimingFilterAnyTime(b, t) == store[b] # NoRecord

\* mutant: an equally old call counts as older
TimingFilterOrEqual(b, t) ==
  /\ store[b] # NoRecord
  /\ store[b].apiCallAt <= t \/ store[b].apiCallAt = 0

\* updateWithTiming(): filter {botId, $or: [{apiCallAt: {$lt: apiCallAt}},
\* {apiCallAt: {$exists: false}}]}
TimingFilter(b, t) ==
  /\ store[b] # NoRecord
  /\ store[b].apiCallAt < t \/ store[b].apiCallAt = 0

\* a timed call is started only while the cached version, and every version
\* a call in progress has read from the cache, is within cap
CacheInBound(b, cap) ==
  /\ b \in DOMAIN cache => Magnitude(cache[b].data) < cap
  /\ \A d \in Callers : Magnitude(callers[d].value) < cap

\* a timed method has returned: its arguments are gone, what is left is the
\* result its caller got (and whether its write was applied)
TimedResult(r, success, conflict) ==
  [IdleCall EXCEPT !.op = r.op, !.pc = "done", !.botId = r.botId,
                   !.modified = r.modified, !.success = success,
                   !.conflict = conflict,
                   !.reason = IF conflict THEN "newer_api_call_exists" ELSE ""]

\* updateWithTiming(): `if (!webhookChanged) return {success: true}`, else up
\* to `await this.collection.findOne({botId})`
UpdateWithTimingBegin(c, b, p, t, tr, changed) ==
  /\ rcalls' = Enter(c,
       IF changed
         THEN [IdleCall EXCEPT !.op = "updateWithTiming", !.pc = "find",
                               !.botId = b, !.payload = p,
                               !.apiCallAt = t, !.apiRespAt = tr]
         ELSE [IdleCall EXCEPT !.op = "updateWithTiming", !.pc = "done",
                               !.botId = b, !.success = TRUE])
  /\ callers' = [callers EXCEPT ![c] = IdleCaller]
  /\ UNCHANGED <<cache, inv, store, hist, lastOp>>

\* updateWithTiming() called on the repository
UpdateWithTimingStart(c, b, p, t, tr, changed, cap) ==
  /\ CanStart(c)
  /\ CacheInBound(b, cap)
  /\ UpdateWithTimingBegin(c, b, p, t, tr, changed)
  /\ UNCHANGED tgVars
  /\ UNCHANGED pollVars

\* updateWithTiming(): findOne() answered: no record -> createWithTiming() up
\* to its insertOne(); a record -> up to updateOne(filter, update)
UpdateWithTimingFind(c) ==
  /\ rcalls[c].op = "updateWithTiming" /\ rcalls[c].pc = "find"
  /\ rcalls' = [rcalls EXCEPT ![c].pc =
       IF store[rcalls[c].botId] = NoRecord THEN "insert" ELSE "updateOne"]
  /\ UNCHANGED <<cache, inv, callers, store, hist, lastOp>>
  /\ UNCHANGED tgVars
  /\ UNCHANGED pollVars

\* createWithTiming() called on the repository: up to its insertOne()
CreateWithTimingStart(c, b, p, t, tr) ==
  /\ CanStart(c)
  /\ rcalls' = Enter(c,
       [IdleCall EXCEPT !.op = "createWithTiming", !.pc = "insert",
                        !.botId = b, !.payload = p,
                        !.apiCallAt = t, !.apiRespAt = tr])
  /\ callers' = [callers EXCEPT ![c] = IdleCaller]
  /\ UNCHANGED <<cache, inv, store, hist, lastOp>>
  /\ UNCHANGED tgVars
  /\ UNCHANGED pollVars

\* createWithTiming(): insertOne() applied by the store
CreateWithTimingInsert(c) ==
  LET b == rcalls[c].botId
  IN /\ rcalls[c].pc = "insert"
     /\ IF ~DuplicateKey(b)
          THEN /\ store' = [store EXCEPT ![b] =
                    NewTimedRecord(rcalls[c].payload, rcalls[c].apiCallAt,
                                   rcalls[c].apiRespAt)]
               /\ hist' = [hist EXCEPT ![b] = @ \cup {rcalls[c].op}]
          ELSE UNCHANGED <<store, hist>>
     /\ rcalls' = [rcalls EXCEPT ![c].pc = "inserted",
                                 ![c].modified = ~DuplicateKey(b)]
     /\ UNCHANGED <<cache, inv, callers, lastOp>>
     /\ UNCHANGED tgVars
     /\ UNCHANGED pollVars

\* mutant: updateWithTiming() passes the lost insert on as {success: false}
CreateWithTimingReturnNoRetry(c) ==
  /\ rcalls[c].pc = "inserted"
  /\ IF rcalls[c].modified
       THEN /\ CacheSet(1, rcalls[c].botId)
            /\ rcalls' = [rcalls EXCEPT ![c] = TimedResult(@, TRUE, FALSE)]
       ELSE /\ UNCHANGED cache
            /\ rcalls' = [rcalls EXCEPT ![c] = TimedResult(@, FALSE, FALSE)]
  /\ UNCHANGED <<inv, callers, store, hist, lastOp>>
  /\ UNCHANGED tgVars
  /\ UNCHANGED pollVars

\* createWithTiming(): after insertOne(): set(1) and {success: true}, or the
\* duplicate-key error caught as {success: false}; updateWithTiming() returns
\* {success: true} on the first and calls itself again on the second
CreateWithTimingReturn(c) ==
  /\ rcalls[c].pc = "inserted"
  /\ IF rcalls[c].modified
       THEN /\ CacheSet(1, rcalls[c].botId)
            /\ rcalls' = [rcalls EXCEPT ![c] = TimedResult(@, TRUE, FALSE)]
       ELSE /\ UNCHANGED cache
            /\ rcalls' = [rcalls EXCEPT ![c] =
                 IF rcalls[c].op = "updateWithTiming"
                   THEN [@ EXCEPT !.pc = "find"]
                   ELSE TimedResult(@, FALSE, FALSE)]
  /\ UNCHANGED <<inv, callers, store, hist, lastOp>>
  /\ UNCHANGED tgVars
  /\ UNCHANGED pollVars

\* updateWithTiming(): updateOne(filter, update) applied by the store
UpdateWithTimingWrite(c) ==
  LET b == rcalls[c].botId
      t == rcalls[c].apiCallAt
  IN /\ rcalls[c].op = "updateWithTiming" /\ rcalls[c].pc = "updateOne"
     /\ IF TimingFilter(b, t)
          THEN /\ store' = [store EXCEPT ![b] =
                    TimedRecord(@, rcalls[c].payload, t, rcalls[c].apiRespAt)]
               /\ hist' = [hist EXCEPT ![b] = @ \cup {"updateWithTiming"}]
          ELSE UNCHANGED <<store, hist>>
     /\ rcalls' = [rcalls EXCEPT ![c].pc = "updated",
                                 ![c].modified = TimingFilter(b, t)]
     /\ UNCHANGED <<cache, inv, callers, lastOp>>
     /\ UNCHANGED tgVars
     /\ UNCHANGED pollVars

\* updateWithTiming(): after updateOne(): modified -> up to
\* `await this.getCurrentVersion(botId)`; else the conflict result
UpdateWithTimingAfterWrite(c) ==
  /\ rcalls[c].op = "updateWithTiming" /\ rcalls[c].pc = "updated"
  /\ IF rcalls[c].modified
       THEN /\ CacheGet(c, rcalls[c].botId)
            /\ rcalls' = [rcalls EXCEPT ![c].pc = "version"]
       ELSE /\ rcalls' = [rcalls EXCEPT ![c] = TimedResult(@, FALSE, TRUE)]
            /\ UNCHANGED <<cache, inv, callers>>
  /\ UNCHANGED <<store, hist, lastOp>>
  /\ UNCHANGED tgVars
  /\ UNCHANGED pollVars

\* updateWithTiming(): `if (currentVersion !== null) set(currentVersion + 1)`
\* and {success: true}
UpdateWithTimingReturn(c) ==
  LET cv == callers[c].value
  IN /\ rcalls[c].op = "updateWithTiming" /\ rcalls[c].pc = "version"
     /\ callers[c].status = "returned"
     /\ IF cv # Null
          THEN CacheSet(JsPlusOne(cv), rcalls[c].botId)
          ELSE UNCHANGED cache
     /\ rcalls' = [rcalls EXCEPT ![c] = TimedResult(@, TRUE, FALSE)]
     /\ callers' = [callers EXCEPT ![c] = IdleCaller]
     /\ UNCHANGED <<inv, store, hist, lastOp>>
     /\ UNCHANGED tgVars
     /\ UNCHANGED pollVars

\* forceUpdateWithTiming(): up to `await this.collection.updateOne(...)`
ForceUpdateWithTimingBegin(c, b, p, t, tr) ==
  /\ rcalls' = Enter(c,
       [IdleCall EXCEPT !.op = "forceUpdateWithTiming", !.pc = "updateOne",
                        !.botId = b, !.payload = p,
                        !.apiCallAt = t, !.apiRespAt = tr])
  /\ callers' = [callers EXCEPT ![c] = IdleCaller]
  /\ UNCHANGED <<cache, inv, store, hist, lastOp>>

\* forceUpdateWithTiming() called on the repository
ForceUpdateWithTimingStart(c, b, p, t, tr, cap) ==
  /\ CanStart(c)
  /\ CacheInBound(b, cap)
  /\ ForceUpdateWithTimingBegin(c, b, p, t, tr)
  /\ UNCHANGED tgVars
  /\ UNCHANGED pollVars

\* forceUpdateWithTiming(): updateOne({botId}, update) applied by the store
ForceUpdateWithTimingWrite(c) ==
  LET b == rcalls[c].botId
  IN /\ rcalls[c].op = "forceUpdateWithTiming" /\ rcalls[c].pc = "updateOne"
     /\ IF store[b] # NoRecord
          THEN /\ store' = [store EXCEPT ![b] =
                    TimedRecord(@, rcalls[c].payload, rcalls[c].apiCallAt,
                                rcalls[c].apiRespAt)]
               /\ hist' = [hist EXCEPT ![b] = @ \cup {"forceUpdateWithTiming"}]
          ELSE UNCHANGED <<store, hist>>
     /\ rcalls' = [rcalls EXCEPT ![c].pc = "updated",
                                 ![c].modified = store[b] # NoRecord]
     /\ UNCHANGED <<cache, inv, callers, lastOp>>
     /\ UNCHANGED tgVars
     /\ UNCHANGED pollVars

\* forceUpdateWithTiming(): after updateOne(): modified -> up to
\* `await this.getCurrentVersion(botId)`; else {success: false}
ForceUpdateWithTimingAfterWrite(c) ==
  /\ rcalls[c].op = "forceUpdateWithTiming" /\ rcalls[c].pc = "updated"
  /\ IF rcalls[c].modified
       THEN /\ CacheGet(c, rcalls[c].botId)
            /\ rcalls' = [rcalls EXCEPT ![c].pc = "version"]
       ELSE /\ rcalls' = [rcalls EXCEPT ![c] = TimedResult(@, FALSE, FALSE)]
            /\ UNCHANGED <<cache, inv, callers>>
  /\ UNCHANGED <<store, hist, lastOp>>
  /\ UNCHANGED tgVars
  /\ UNCHANGED pollVars

\* forceUpdateWithTiming(): `if (currentVersion !== null) set(currentVersion
\* + 1)` and {success: true}
ForceUpdateWithTimingReturn(c) ==
  LET cv == callers[c].value
  IN /\ rcalls[c].op = "forceUpdateWithTiming" /\ rcalls[c].pc = "version"
     /\ callers[c].status = "returned"
     /\ IF cv # Null
          THEN CacheSet(JsPlusOne(cv), rcalls[c].botId)
          ELSE UNCHANGED cache
     /\ rcalls' = [rcalls EXCEPT ![c] = TimedResult(@, TRUE, FALSE)]
     /\ callers' = [callers EXCEPT ![c] = IdleCaller]
     /\ UNCHANGED <<inv, store, hist, lastOp>>
     /\ UNCHANGED tgVars
     /\ UNCHANGED pollVars

\* updateWithTiming() / createWithTiming() / forceUpdateWithTiming(): the
\* store call being awaited (findOne, insertOne, updateOne) rejects with an
\* error other than a duplicate key; no method catches it (createWithTiming
\* rethrows it), so the method itself rejects
TimedStoreError(c) ==
  /\ rcalls[c].op \in {"updateWithTiming", "createWithTiming",
                       "forceUpdateWithTiming"}
  /\ rcalls[c].pc \in {"find", "insert", "updateOne"}
  /\ rcalls' = [rcalls EXCEPT ![c] =
       [IdleCall EXCEPT !.op = rcalls[c].op, !.pc = "threw",
                        !.botId = rcalls[c].botId]]
  /\ UNCHANGED <<cache, inv, callers, store, hist, lastOp>>
  /\ UNCHANGED tgVars
  /\ UNCHANGED pollVars

\* another process writes the subject's record past this repository and its
\* cache, raising the version by one, while no call of the repository is in
\* progress: `collection.updateOne({botId}, {$set: {version: version + 1}})`
ExternalWrite(b, cap) ==
  /\ \A c \in Callers : CanStart(c)
  /\ store[b] # NoRecord
  /\ store[b].version >= 1 /\ store[b].version < cap
  /\ store' = [store EXCEPT ![b].version = @ + 1]
  /\ hist' = [hist EXCEPT ![b] = @ \cup {"external"}]
  /\ UNCHANGED <<cacheVars, lastOp, rcalls>>
  /\ UNCHANGED tgVars
  /\ UNCHANGED pollVars

\* the getCurrentVersion fetcher's findOne() is served by the store
FetcherRead(f) ==
  /\ inv[f].status = "pending"
  /\ inv' = [inv EXCEPT ![f].status = "read",
                        ![f].value = StoredVersion(inv[f].key)]
  /\ UNCHANGED <<cache, callers, lastOp>>
  /\ UNCHANGED repoVars
  /\ UNCHANGED tgVars
  /\ UNCHANGED pollVars

\* the findOne() response reaches fetchAndCache
VersionFetched(f) ==
  /\ inv[f].status = "read"
  /\ FetchResolved(f, inv[f].value)
  /\ UNCHANGED lastOp
  /\ UNCHANGED repoVars
  /\ UNCHANGED tgVars
  /\ UNCHANGED pollVars

\* the findOne() response reaches refreshInBackground
VersionRefreshed(f) ==
  /\ inv[f].status = "read"
  /\ RefreshResolved(f, inv[f].value)
  /\ UNCHANGED lastOp
  /\ UNCHANGED repoVars
  /\ UNCHANGED tgVars
  /\ UNCHANGED pollVars

(* ---------------- Telegram ---------------- *)
\* A string is the sequence of its characters.
UpperCase == <<"A", "B", "C", "D", "E", "F", "G", "H", "I", "J", "K", "L", "M",
               "N", "O", "P", "Q", "R", "S", "T", "U", "V", "W", "X", "Y", "Z">>
LowerCase == <<"a", "b", "c", "d", "e", "f", "g", "h", "i", "j", "k", "l", "m",
               "n", "o", "p", "q", "r", "s", "t", "u", "v", "w", "x", "y", "z">>

\* String.prototype.toLowerCase()
ToLowerCase(s) ==
  [i \in 1..Len(s) |->
     IF \E n \in 1..26 : UpperCase[n] = s[i]
       THEN LowerCase[CHOOSE n \in 1..26 : UpperCase[n] = s[i]]
       ELSE s[i]]

\* String.prototype.includes()
Includes(s, sub) ==
  \E i \in 0..(Len(s) - Len(sub)) : SubSeq(s, i + 1, i + Len(sub)) = sub

\* the literals "already set" and "was set"
AlreadySet == <<"a", "l", "r", "e", "a", "d", "y", " ", "s", "e", "t">>
WasSet == <<"w", "a", "s", " ", "s", "e", "t">>

\* a SetWebhookBody without a description field
NoDescription == <<"undefined">>

\* the phrases descriptions are put together from
Phrases == {<<"W", "e", "b", "h", "o", "o", "k", " ">>,
            <<"w", "a", "s", " ", "s", "e", "t">>,
            <<"i", "s", " ", "a", "l", "r", "e", "a", "d", "y", " ", "s", "e", "t">>,
            <<"W", "A", "S", " ", "S", "E", "T">>,
            <<"A", "l", "r", "e", "a", "d", "y", " ", "S", "e", "t">>,
            <<"w", "a", "s", " ", "n", "o", "t", " ", "s", "e", "t">>}

\* SetWebhookBody {ok, description} with the error_code of a failure
\* (0: the field is absent); `null` is NullBody
Body(ok, code, d) == [ok |-> ok, error_code |-> code, description |-> d]
NullBody == [null |-> TRUE]

\* mutant: a description that is not recognized counts as a change
detectWebhookChangeDefaultTrue(apiResult) ==
  IF apiResult = NullBody \/ ~apiResult.ok
    THEN FALSE
    ELSE LET description ==
               IF apiResult.description = NoDescription
                 THEN <<>>
                 ELSE ToLowerCase(apiResult.description)
         IN IF Includes(description, AlreadySet) THEN FALSE
            ELSE IF Includes(description, WasSet) THEN TRUE
            ELSE TRUE

\* detectWebhookChange(apiResult)
detectWebhookChange(apiResult) ==
  IF apiResult = NullBody \/ ~apiResult.ok
    THEN FALSE
    ELSE LET description ==
               IF apiResult.description = NoDescription
                 THEN <<>>
                 ELSE ToLowerCase(apiResult.description)
         IN IF Includes(description, AlreadySet) THEN FALSE
            ELSE IF Includes(description, WasSet) THEN TRUE
            ELSE FALSE

\* the bodies a detectWebhookChange() call is applied to: null, and ok / not
\* ok bodies without a description or with one of up to MaxPhrases phrases
RECURSIVE Concat(_)
Concat(ps) == IF Len(ps) = 0 THEN <<>> ELSE Head(ps) \o Concat(Tail(ps))

Descriptions ==
  {NoDescription} \cup
  {Concat(ps) : ps \in UNION {[1..n -> Phrases] : n \in 0..MaxPhrases}}

ProbeBodies ==
  {NullBody} \cup {Body(ok, 0, d) : ok \in BOOLEAN, d \in Descriptions}

NoProbe == [input |-> NullBody, done |-> FALSE, changed |-> FALSE]

\* one call of detectWebhookChange on the chosen body
DetectWebhookChange ==
  /\ ~probe.done
  /\ probe' = [probe EXCEPT !.done = TRUE,
                            !.changed = detectWebhookChange(probe.input)]
  /\ UNCHANGED <<cacheVars, lastOp, repoVars, tcalls, clock, pollVars>>

\* the bodies the provider answers setWebhook with
RateLimitBody ==
  Body(FALSE, 429, <<"T", "o", "o", " ", "M", "a", "n", "y">>)
BadRequestBody ==
  Body(FALSE, 400, <<"B", "a", "d", " ", "R", "e", "q", "u", "e", "s", "t">>)
WasSetBody ==
  Body(TRUE, 0, <<"W", "e", "b", "h", "o", "o", "k", " ", "w", "a", "s", " ",
                  "s", "e", "t">>)
AlreadySetBody ==
  Body(TRUE, 0, <<"W", "e", "b", "h", "o", "o", "k", " ", "i", "s", " ", "a",
                  "l", "r", "e", "a", "d", "y", " ", "s", "e", "t">>)
Bodies == {RateLimitBody, BadRequestBody, WasSetBody, AlreadySetBody}

\* fetch() or resp.json() threw
TransportFailure == [threw |-> TRUE]

\* setWebhookWithRetry(): `const maxRetries = 3`
maxRetries == 3

\* mutant: every body that is not ok is taken for a rate limit
IsRateLimitNotOk(result) == ~result.ok

\* setWebhookWithRetry(): `result.error_code === 429`
IsRateLimit(result) == result.error_code = 429

\* a call of the Telegram client: attempt is the loop variable, calls the
\* number of fetch() calls made, outs their outcomes in order (history)
IdleTCall == [op |-> "none", pc |-> "idle", botId |-> "", payload |-> {},
              attempt |-> 0, calls |-> 0, outs |-> <<>>, result |-> NullBody,
              apiCallAt |-> 0, apiRespAt |-> 0]

\* a method of the client may be entered by call slot c
TCanStart(c) ==
  /\ tcalls[c].pc \in {"idle", "done", "threw"}
  /\ rcalls[c].pc \in {"idle", "done", "threw"}
  /\ callers[c].status # "awaiting"

\* ensureWebhook() has settled: its frame is gone, what is left is the value
\* (or the error) its caller got
EnsureSettled(t, pc) ==
  [IdleTCall EXCEPT !.op = "ensureWebhook", !.pc = pc, !.botId = t.botId,
                    !.result = t.result]

\* mutant: the early return of the no-change branch is missing
EnsureAfterRetryAlwaysWrites(c, t, result) ==
  LET e == [t EXCEPT !.result = result, !.apiRespAt = clock,
                     !.attempt = 0, !.calls = 0, !.outs = <<>>]
  IN IF result = NullBody \/ ~result.ok
       THEN /\ tcalls' = [tcalls EXCEPT ![c] = [e EXCEPT !.pc = "markFailed"]]
            /\ SetWebhookFailedBegin(c, t.botId)
            /\ UNCHANGED <<clock, probe, pollVars>>
       ELSE /\ tcalls' = [tcalls EXCEPT ![c] = [e EXCEPT !.pc = "updating"]]
            /\ UpdateWithTimingBegin(c, t.botId, t.payload, t.apiCallAt,
                                     clock, TRUE)
            /\ UNCHANGED <<clock, probe, pollVars>>

\* ensureWebhook() resumed with setWebhookResult (the frame of
\* setWebhookWithRetry is gone): `apiRespAt = new Date()`, then
\* setWebhookFailed() up to its first await, or `return setWebhookResult`
\* when nothing changed, or updateWithTiming() up to its first await
EnsureAfterRetry(c, t, result) ==
  LET e == [t EXCEPT !.result = result, !.apiRespAt = clock,
                     !.attempt = 0, !.calls = 0, !.outs = <<>>]
  IN IF result = NullBody \/ ~result.ok
       THEN /\ tcalls' = [tcalls EXCEPT ![c] = [e EXCEPT !.pc = "markFailed"]]
            /\ SetWebhookFailedBegin(c, t.botId)
            /\ UNCHANGED <<clock, probe, pollVars>>
       ELSE IF ~detectWebhookChange(result)
         THEN /\ tcalls' = [tcalls EXCEPT ![c] = EnsureSettled(e, "done")]
              /\ UNCHANGED <<cacheVars, lastOp, repoVars, clock, probe, pollVars>>
         ELSE /\ tcalls' = [tcalls EXCEPT ![c] = [e EXCEPT !.pc = "updating"]]
              /\ UpdateWithTimingBegin(c, t.botId, t.payload, t.apiCallAt,
                                       clock, TRUE)
              /\ UNCHANGED <<clock, probe, pollVars>>

\* `return result` / `return null` of setWebhookWithRetry()
RetryReturns(c, t, result) ==
  IF t.op = "ensureWebhook"
    THEN EnsureAfterRetry(c, t, result)
    ELSE /\ tcalls' = [tcalls EXCEPT ![c] =
              [t EXCEPT !.pc = "done", !.result = result]]
         /\ UNCHANGED <<cacheVars, lastOp, repoVars, clock, probe, pollVars>>

\* the head of `while (attempt < maxRetries)`: fetch() again or fall out of
\* the loop to `return null`
RetryLoop(c, t) ==
  IF t.attempt < maxRetries
    THEN /\ tcalls' = [tcalls EXCEPT ![c] =
              [t EXCEPT !.pc = "fetch", !.calls = @ + 1]]
         /\ UNCHANGED <<cacheVars, lastOp, repoVars, clock, probe, pollVars>>
    ELSE RetryReturns(c, t, NullBody)

\* setWebhookWithRetry(): up to the first `await fetch(...)`
SetWebhookWithRetry(c, p) ==
  /\ TCanStart(c)
  /\ RetryLoop(c, [IdleTCall EXCEPT !.op = "setWebhookWithRetry", !.payload = p])

\* the provider's body arrives: rate limit -> sleep, otherwise return it
ProviderResponds(c, result) ==
  LET t == [tcalls[c] EXCEPT !.outs = Append(@, result)]
  IN /\ tcalls[c].pc = "fetch"
     /\ IF IsRateLimit(result)
          THEN /\ tcalls' = [tcalls EXCEPT ![c] = [t EXCEPT !.pc = "rateLimited"]]
               /\ UNCHANGED <<cacheVars, lastOp, repoVars, clock, probe, pollVars>>
          ELSE RetryReturns(c, t, result)

\* the catch block: `return null` on the last attempt, else back off
ProviderFails(c) ==
  LET t == [tcalls[c] EXCEPT !.outs = Append(@, TransportFailure)]
  IN /\ tcalls[c].pc = "fetch"
     /\ IF t.attempt = maxRetries - 1
          THEN RetryReturns(c, t, NullBody)
          ELSE /\ tcalls' = [tcalls EXCEPT ![c] =
                    [t EXCEPT !.attempt = @ + 1, !.pc = "backoff"]]
               /\ UNCHANGED <<cacheVars, lastOp, repoVars, clock, probe, pollVars>>

\* mutant: a rate limit does not use up an attempt
RateLimitSleepDoneNoCount(c) ==
  /\ tcalls[c].pc = "rateLimited"
  /\ RetryLoop(c, tcalls[c])

\* `await this.sleep(retryAfter * 1000); attempt++; continue`
RateLimitSleepDone(c) ==
  /\ tcalls[c].pc = "rateLimited"
  /\ RetryLoop(c, [tcalls[c] EXCEPT !.attempt = @ + 1])

\* `await this.sleep(1000 * attempt)` in the catch block, then the loop head
BackoffSleepDone(c) ==
  /\ tcalls[c].pc = "backoff"
  /\ RetryLoop(c, tcalls[c])

\* ensureWebhook(): `apiCallAt = new Date()`, then setWebhookWithRetry() up
\* to its first `await fetch(...)`; cap bounds the model
EnsureWebhook(c, b, p, cap) ==
  /\ TCanStart(c)
  /\ store[b].version < cap
  /\ CacheInBound(b, cap)
  /\ RetryLoop(c, [IdleTCall EXCEPT !.op = "ensureWebhook", !.botId = b,
                                    !.payload = p, !.apiCallAt = clock])

\* ensureWebhook(): setWebhookFailed() has settled: `return setWebhookResult`,
\* or its error is rethrown by the catch block
EnsureFailedReturn(c) ==
  /\ tcalls[c].pc = "markFailed"
  /\ rcalls[c].pc \in {"done", "threw"}
  /\ tcalls' = [tcalls EXCEPT ![c] =
       EnsureSettled(tcalls[c], IF rcalls[c].pc = "done" THEN "done" ELSE "threw")]
  /\ rcalls' = [rcalls EXCEPT ![c] = IdleCall]
  /\ UNCHANGED <<cacheVars, lastOp, store, hist, clock, probe, pollVars>>

\* ensureWebhook(): updateWithTiming() has returned dbResult: success ->
\* return; conflict -> up to `await this.hookStateRepository.getByBotId()`;
\* otherwise return
EnsureUpdated(c) ==
  /\ tcalls[c].pc = "updating"
  /\ rcalls[c].pc = "done"
  /\ tcalls' = [tcalls EXCEPT ![c] =
       IF ~rcalls[c].success /\ rcalls[c].conflict
         THEN [tcalls[c] EXCEPT !.pc = "reread"]
         ELSE EnsureSettled(tcalls[c], "done")]
  /\ rcalls' = [rcalls EXCEPT ![c] = IdleCall]
  /\ UNCHANGED <<cacheVars, lastOp, store, hist, clock, probe, pollVars>>

\* mutant: an equally old stored call is forced over as well
OursIsNewerOrEqual(currentState, apiCallAt) ==
  /\ currentState # NoRecord
  /\ currentState.apiCallAt # 0
  /\ currentState.apiCallAt <= apiCallAt

\* ensureWebhook(): `currentState && currentState.apiCallAt &&
\* currentState.apiCallAt < apiCallAt`
OursIsNewer(currentState, apiCallAt) ==
  /\ currentState # NoRecord
  /\ currentState.apiCallAt # 0
  /\ currentState.apiCallAt < apiCallAt

\* ensureWebhook(): getByBotId() answered: forceUpdateWithTiming() up to its
\* first await when `currentState && currentState.apiCallAt &&
\* currentState.apiCallAt < apiCallAt`, else return
EnsureReread(c) ==
  LET t == tcalls[c]
      currentState == store[t.botId]
  IN /\ t.pc = "reread"
     /\ IF OursIsNewer(currentState, t.apiCallAt)
          THEN /\ tcalls' = [tcalls EXCEPT ![c].pc = "forcing"]
               /\ ForceUpdateWithTimingBegin(c, t.botId, t.payload,
                                             t.apiCallAt, t.apiRespAt)
          ELSE /\ tcalls' = [tcalls EXCEPT ![c] = EnsureSettled(t, "done")]
               /\ UNCHANGED <<cacheVars, lastOp, repoVars>>
     /\ UNCHANGED <<clock, probe, pollVars>>

\* ensureWebhook(): forceUpdateWithTiming() has returned
EnsureForced(c) ==
  /\ tcalls[c].pc = "forcing"
  /\ rcalls[c].pc = "done"
  /\ tcalls' = [tcalls EXCEPT ![c] = EnsureSettled(tcalls[c], "done")]
  /\ rcalls' = [rcalls EXCEPT ![c] = IdleCall]
  /\ UNCHANGED <<cacheVars, lastOp, store, hist, clock, probe, pollVars>>

\* ensureWebhook(): `await this.hookStateRepository.updateWithTiming(...)` and
\* `await ...forceUpdateWithTiming(...)` stand outside any try block: when the
\* repository method rejects, ensureWebhook() rejects with the same error
EnsureWriteThrew(c) ==
  /\ tcalls[c].pc \in {"updating", "forcing"}
  /\ rcalls[c].pc = "threw"
  /\ tcalls' = [tcalls EXCEPT ![c] = EnsureSettled(tcalls[c], "threw")]
  /\ rcalls' = [rcalls EXCEPT ![c] = IdleCall]
  /\ UNCHANGED <<cacheVars, lastOp, store, hist, clock, probe, pollVars>>

\* time passes
Tick ==
  /\ clock < MaxTime
  /\ clock' = clock + 1
  /\ UNCHANGED <<cacheVars, lastOp, repoVars, tcalls, probe, pollVars>>

(* ---------------- HookStatePoller ---------------- *)
\* the subjects of the hook_states collection
PollBots == {"a", "b"}

\* An optional value (`x?: T`, or a value that may be undefined) is <<>> when
\* it is undefined and <<v>> when it is v.
Undefined == <<>>
Some(v) == <<v>>

\* `x ?? d`
Nullish(x, d) == IF x = Undefined THEN d ELSE x[1]

\* WebhookInfo as the provider reports it (the fields onData reads)
WebhookInfo(url, cert, pending, conns, ip, allowed) ==
  [url |-> url, has_custom_certificate |-> cert,
   pending_update_count |-> pending, max_connections |-> conns,
   ip_address |-> ip, allowed_updates |-> allowed]

\* the remote states a subject's registration can be observed in
Infos ==
  {WebhookInfo("https://t/updates", FALSE, 0, 40, "10.0.0.1",
               Some(<<"message">>)),
   WebhookInfo("", TRUE, 1, 1, "10.0.0.2", Undefined)}

\* getWebhookInfo(): the parsed body {ok, result}; result is undefined when
\* the provider answers ok: false; null (NullBody) when fetch() threw
InfoBodies ==
  {[ok |-> TRUE, result |-> Some(i)] : i \in Infos}
    \cup {[ok |-> FALSE, result |-> Undefined]}

\* a hook_states document: `deleted` and the fields update() mirrors; NoHook:
\* no document
NoHook == [exists |-> FALSE]
NoMirror == [none |-> TRUE]

\* upsert(): the document is created or replaced field by field, active
UpsertedHook(doc, allowed) ==
  [exists |-> TRUE, deleted |-> FALSE, allowedUpdates |-> allowed,
   mirror |-> IF doc = NoHook THEN NoMirror ELSE doc.mirror]

\* mutant: update() leaves the pending update count as it was stored
MirroredHookKeepsPending(doc, h) ==
  [doc EXCEPT
     !.deleted = FALSE,
     !.allowedUpdates = h.allowedUpdates,
     !.mirror = [url |-> h.url,
                 hasCustomCertificate |-> h.hasCustomCertificate,
                 pendingUpdateCount |->
                   IF doc.mirror = NoMirror THEN h.pendingUpdateCount
                   ELSE doc.mirror.pendingUpdateCount,
                 maxConnections |-> h.maxConnections,
                 ipAddress |-> h.ipAddress]]

\* update(hookState): `$set: {...hookState, updatedAt, deleted: false}` applied
\* to the document found by botId
MirroredHook(doc, h) ==
  [doc EXCEPT
     !.deleted = FALSE,
     !.allowedUpdates = h.allowedUpdates,
     !.mirror = [url |-> h.url,
                 hasCustomCertificate |-> h.hasCustomCertificate,
                 pendingUpdateCount |-> h.pendingUpdateCount,
                 maxConnections |-> h.maxConnections,
                 ipAddress |-> h.ipAddress]]

\* onData(): the argument it builds for update() from a pair
UpdateParams(botId, webhookInfo) ==
  [botId |-> botId,
   url |-> webhookInfo.url,
   hasCustomCertificate |-> webhookInfo.has_custom_certificate,
   pendingUpdateCount |-> webhookInfo.pending_update_count,
   maxConnections |-> webhookInfo.max_connections,
   ipAddress |-> webhookInfo.ip_address,
   allowedUpdates |-> Nullish(webhookInfo.allowed_updates, <<>>)]

\* findAll(): the documents with deleted: false
ActiveHooks == {b \in PollBots : hooks[b] # NoHook /\ ~hooks[b].deleted}

\* The list findAll() resolved to, as the value the cache of getAllHooks
\* holds: a number for each list (every array is truthy and not null).
ListCode(S) ==
  1 + (IF "a" \in S THEN 1 ELSE 0) + (IF "b" \in S THEN 2 ELSE 0)

\* the list a cached value stands for, in cursor order
ListOf(code) ==
  (IF (code - 1) % 2 = 1 THEN <<"a">> ELSE <<>>)
    \o (IF (code - 1) \div 2 = 1 THEN <<"b">> ELSE <<>>)

\* the key of getAllHooks(): JSON.stringify([])
AllHooksKey == "[]"

\* HookStatePoller after its constructor: state "initial", no subscription;
\* inner is the state of the poller made by makePoller(); crashed: the process
\* was ended by an unhandled promise rejection
InitialPoll ==
  [state |-> "initial", unsubscribe |-> 0, subs |-> {}, inner |-> "initial",
   crashed |-> FALSE]

\* plog: the error the last step of the loop ran into, if any, and who got
\* it: errorHandler (which logs it) or nobody (an unhandled rejection)
NoError == [error |-> "none", by |-> "none"]
Logged(source) == [error |-> source, by |-> "errorHandler"]
Unhandled(source) == [error |-> source, by |-> "unhandled"]

\* a start() or stop() call: noop when it returned at its guard; deferred when
\* the inner start() found the inner poller still stopping
IdlePCall == [op |-> "none", pc |-> "idle", noop |-> FALSE, deferred |-> FALSE]

\* the subscriptions of onData$ are numbered; a new one takes the first free
Subs == 1..MaxSubs
NewSub == CHOOSE i \in Subs \ poll.subs : \A j \in Subs \ poll.subs : i <= j

\* mutant: start() returns early only when already running
StartReturnsEarlyRunningOnly(state) == state = "running"

\* start(): `if (this.isRunning || this.isStarting) return`
StartReturnsEarly(state) == state \in {"running", "starting"}

\* stop(): `if (this.isStopped || this.isStopping) return`
StopReturnsEarly(state) == state \in {"stopped", "stopping"}

\* start(): the guard; else state = "starting", onData subscribed, and
\* poller.start() called (the inner poller starts running unless it is still
\* stopping, in which case it starts once it has stopped), up to the await
PollerStart(c) ==
  /\ ~poll.crashed
  /\ pcalls[c].pc \in {"idle", "done"}
  /\ IF StartReturnsEarly(poll.state)
       THEN /\ pcalls' = [pcalls EXCEPT ![c] =
                 [IdlePCall EXCEPT !.op = "start", !.pc = "done", !.noop = TRUE]]
            /\ UNCHANGED poll
       ELSE /\ poll.subs # Subs
            /\ poll' = [poll EXCEPT
                 !.state = "starting",
                 !.unsubscribe = NewSub,
                 !.subs = @ \cup {NewSub},
                 !.inner = IF @ = "stopping" THEN @ ELSE "running"]
            /\ pcalls' = [pcalls EXCEPT ![c] =
                 [IdlePCall EXCEPT !.op = "start", !.pc = "awaiting",
                                   !.deferred = (poll.inner = "stopping")]]
  /\ UNCHANGED <<hooks, tick, runs, plog>>
  /\ UNCHANGED <<cacheVars, lastOp, repoVars, tgVars>>

\* start(): `await this.poller.start()` resumed: state = "running"
PollerStarted(c) ==
  /\ ~poll.crashed
  /\ pcalls[c].op = "start" /\ pcalls[c].pc = "awaiting"
  /\ poll.inner # "stopping"
  /\ poll' = [poll EXCEPT !.state = "running",
                          !.inner = IF pcalls[c].deferred THEN "running" ELSE @]
  /\ pcalls' = [pcalls EXCEPT ![c].pc = "done"]
  /\ UNCHANGED <<hooks, tick, runs, plog>>
  /\ UNCHANGED <<cacheVars, lastOp, repoVars, tgVars>>

\* stop(): the guard; else state = "stopping", `this.$unsubscribe?.()`,
\* `this.$unsubscribe = undefined`, and poller.stop() called, up to the await
PollerStop(c) ==
  /\ ~poll.crashed
  /\ pcalls[c].pc \in {"idle", "done"}
  /\ IF StopReturnsEarly(poll.state)
       THEN /\ pcalls' = [pcalls EXCEPT ![c] =
                 [IdlePCall EXCEPT !.op = "stop", !.pc = "done", !.noop = TRUE]]
            /\ UNCHANGED poll
       ELSE /\ poll' = [poll EXCEPT
                 !.state = "stopping",
                 !.subs = @ \ {poll.unsubscribe},
                 !.unsubscribe = 0,
                 !.inner = IF @ = "running" THEN "stopping" ELSE @]
            /\ pcalls' = [pcalls EXCEPT ![c] =
                 [IdlePCall EXCEPT !.op = "stop", !.pc = "awaiting"]]
  /\ UNCHANGED <<hooks, tick, runs, plog>>
  /\ UNCHANGED <<cacheVars, lastOp, repoVars, tgVars>>

\* the inner poller has wound down: no fetchData() run is left
InnerStopped ==
  /\ ~poll.crashed
  /\ poll.inner = "stopping"
  /\ tick.pc = "idle"
  /\ poll' = [poll EXCEPT !.inner = "stopped"]
  /\ UNCHANGED <<pcalls, hooks, tick, runs, plog>>
  /\ UNCHANGED <<cacheVars, lastOp, repoVars, tgVars>>

\* stop(): `await this.poller.stop()` resumed: state = "stopped"
PollerStopped(c) ==
  /\ ~poll.crashed
  /\ pcalls[c].op = "stop" /\ pcalls[c].pc = "awaiting"
  /\ poll.inner # "stopping"
  /\ poll' = [poll EXCEPT !.state = "stopped"]
  /\ pcalls' = [pcalls EXCEPT ![c].pc = "done"]
  /\ UNCHANGED <<hooks, tick, runs, plog>>
  /\ UNCHANGED <<cacheVars, lastOp, repoVars, tgVars>>

\* the fetchData() run of the inner poller: list is the array getAllHooks()
\* resolved to, k the index of the subject being queried, pairs the result
IdleTick == [pc |-> "idle", list |-> <<>>, k |-> 0, pairs |-> <<>>]

\* an onData() run: k is the index of the pair whose update() is awaited
Runs == 1..MaxRuns
FreeRun == [pc |-> "free", pairs |-> <<>>, k |-> 0]

FreeRuns == {r \in Runs : runs[r].pc = "free"}

\* onData(): the loop reaches pair k: a pair without webhook info makes
\* `webhookInfo.url` throw, which rejects the promise onData() returned
Throws(pairs, k) == k <= Len(pairs) /\ pairs[k].info = Undefined

\* onData() from pair k on: past the last pair the run returns, at a throw
\* it ends; else update() is called, up to its await
RunAt(pairs, k) ==
  IF k > Len(pairs) \/ Throws(pairs, k) THEN FreeRun
  ELSE [pc |-> "update", pairs |-> pairs, k |-> k]

\* Nobody awaits or catches the promise of onData(): its rejection is an
\* unhandled rejection, which ends the process or not, as the runtime is set
Rejected(threw, source, crash) ==
  IF threw
    THEN /\ plog' = Unhandled(source)
         /\ poll' = [poll EXCEPT !.crashed = crash]
    ELSE /\ plog' = NoError
         /\ crash = FALSE
         /\ UNCHANGED poll

\* the inner poller emits `pairs` on onData$: every subscription calls onData
Emit(pairs, crash) ==
  LET n == Cardinality(poll.subs)
      started == {r \in FreeRuns : Cardinality({q \in FreeRuns : q <= r}) <= n}
  IN /\ Cardinality(FreeRuns) >= n
     /\ runs' = [r \in Runs |->
          IF r \in started THEN RunAt(pairs, 1) ELSE runs[r]]
     /\ Rejected(n > 0 /\ Throws(pairs, 1), "webhookInfo", crash)

\* the interval has passed: the inner poller calls fetchData(), which runs up
\* to `await this.getAllHooks()`
PollTick ==
  /\ ~poll.crashed
  /\ poll.inner = "running"
  /\ tick.pc = "idle"
  /\ callers[1].status # "awaiting"
  /\ CacheGet(1, AllHooksKey)
  /\ tick' = [IdleTick EXCEPT !.pc = "list"]
  /\ plog' = NoError
  /\ UNCHANGED <<poll, pcalls, hooks, runs>>
  /\ UNCHANGED <<lastOp, repoVars, tgVars>>

\* fetchData(): getAllHooks() resolved: an empty list is returned and emitted
\* at once, else getWebhookInfo() is called for the first subject
TickListed(crash) ==
  LET list == ListOf(callers[1].value)
  IN /\ ~poll.crashed
     /\ tick.pc = "list"
     /\ callers[1].status = "returned"
     /\ callers' = [callers EXCEPT ![1] = IdleCaller]
     /\ IF list = <<>>
          THEN /\ tick' = IdleTick
               /\ Emit(<<>>, crash)
          ELSE /\ tick' = [tick EXCEPT !.pc = "info", !.list = list, !.k = 1]
               /\ crash = FALSE
               /\ UNCHANGED <<poll, runs, plog>>
     /\ UNCHANGED <<pcalls, hooks>>
     /\ UNCHANGED <<cache, inv, lastOp, repoVars, tgVars>>

\* fetchData(): getAllHooks() rejected (findAll() failed with nothing cached):
\* fetchData() rejects and the inner poller passes the error to errorHandler
TickListFailed ==
  /\ ~poll.crashed
  /\ tick.pc = "list"
  /\ callers[1].status = "threw"
  /\ callers' = [callers EXCEPT ![1] = IdleCaller]
  /\ tick' = IdleTick
  /\ plog' = Logged("getAllHooks")
  /\ UNCHANGED <<poll, pcalls, hooks, runs>>
  /\ UNCHANGED <<cache, inv, lastOp, repoVars, tgVars>>

\* fetchData(): getWebhookInfo() resolved. `const { result } = null` throws
\* (to errorHandler); else the pair is pushed and the next subject queried,
\* or the pairs are returned and emitted
TickInfo(body, crash) ==
  LET pairs == Append(tick.pairs,
                      [botId |-> tick.list[tick.k], info |-> body.result])
  IN /\ ~poll.crashed
     /\ tick.pc = "info"
     /\ IF body = NullBody
          THEN /\ tick' = IdleTick
               /\ plog' = Logged("getWebhookInfo")
               /\ crash = FALSE
               /\ UNCHANGED <<poll, runs>>
          ELSE IF tick.k = Len(tick.list)
                 THEN /\ tick' = IdleTick
                      /\ Emit(pairs, crash)
                 ELSE /\ tick' = [tick EXCEPT !.k = @ + 1, !.pairs = pairs]
                      /\ crash = FALSE
                      /\ UNCHANGED <<poll, runs, plog>>
     /\ UNCHANGED <<pcalls, hooks>>
     /\ UNCHANGED <<cacheVars, lastOp, repoVars, tgVars>>

\* onData(): the updateOne() of update() applied by the store (a subject
\* without a document matches nothing), and the loop goes on to the next pair
RunUpdated(r, crash) ==
  LET run == runs[r]
      pair == run.pairs[run.k]
      b == pair.botId
  IN /\ ~poll.crashed
     /\ run.pc = "update"
     /\ hooks' = [hooks EXCEPT ![b] =
          IF @ = NoHook THEN @
          ELSE MirroredHook(@, UpdateParams(b, pair.info[1]))]
     /\ runs' = [runs EXCEPT ![r] = RunAt(run.pairs, run.k + 1)]
     /\ Rejected(Throws(run.pairs, run.k + 1), "webhookInfo", crash)
     /\ UNCHANGED <<pcalls, tick>>
     /\ UNCHANGED <<cacheVars, lastOp, repoVars, tgVars>>

\* onData(): update() rejected (the store call failed): the run ends there
RunUpdateFailed(r, crash) ==
  /\ ~poll.crashed
  /\ runs[r].pc = "update"
  /\ runs' = [runs EXCEPT ![r] = FreeRun]
  /\ Rejected(TRUE, "update", crash)
  /\ UNCHANGED <<pcalls, hooks, tick>>
  /\ UNCHANGED <<cacheVars, lastOp, repoVars, tgVars>>

\* the fetcher of getAllHooks: findAll() is served by the store
HooksRead(f) ==
  /\ ~poll.crashed
  /\ inv[f].status = "pending"
  /\ inv' = [inv EXCEPT ![f].status = "read",
                        ![f].value = ListCode(ActiveHooks)]
  /\ UNCHANGED <<cache, callers, lastOp, repoVars, tgVars, pollVars>>

\* findAll()'s list reaches fetchAndCache / refreshInBackground
HooksFetched(f) ==
  /\ ~poll.crashed
  /\ inv[f].status = "read"
  /\ FetchResolved(f, inv[f].value)
  /\ UNCHANGED <<lastOp, repoVars, tgVars, pollVars>>

HooksRefreshed(f) ==
  /\ ~poll.crashed
  /\ inv[f].status = "read"
  /\ RefreshResolved(f, inv[f].value)
  /\ UNCHANGED <<lastOp, repoVars, tgVars, pollVars>>

\* findAll() failed
HooksFetchFailed(f) ==
  /\ ~poll.crashed
  /\ inv[f].status = "pending"
  /\ FetchRejected(f)
  /\ UNCHANGED <<lastOp, repoVars, tgVars, pollVars>>

HooksRefreshFailed(f) ==
  /\ ~poll.crashed
  /\ inv[f].status = "pending"
  /\ RefreshRejected(f)
  /\ UNCHANGED <<lastOp, repoVars, tgVars, pollVars>>

\* upsert() and delete() of the hook_states repository, called by its other
\* clients
UpsertHook(b, allowed) ==
  /\ ~poll.crashed
  /\ hooks' = [hooks EXCEPT ![b] = UpsertedHook(@, allowed)]
  /\ UNCHANGED <<poll, pcalls, tick, runs, plog>>
  /\ UNCHANGED <<cacheVars, lastOp, repoVars, tgVars>>

DeleteHook(b) ==
  /\ ~poll.crashed
  /\ hooks[b] # NoHook
  /\ hooks' = [hooks EXCEPT ![b].deleted = TRUE]
  /\ UNCHANGED <<poll, pcalls, tick, runs, plog>>
  /\ UNCHANGED <<cacheVars, lastOp, repoVars, tgVars>>

Init ==
  /\ cache = EmptyMap
  /\ inv = [i \in Slots |-> FreeSlot]
  /\ callers = [c \in Callers |-> IdleCaller]
  /\ lastOp = [op |-> "none", key |-> "", by |-> {}]
  /\ store = [b \in Bots |-> NoRecord]
  /\ rcalls = [c \in Callers |-> IdleCall]
  /\ hist = [b \in Bots |-> {}]
  /\ tcalls = [c \in Callers |-> IdleTCall]
  /\ clock = 1
  /\ probe = NoProbe
  /\ poll = InitialPoll
  /\ pcalls = [c \in Callers |-> IdlePCall]
  /\ hooks = [b \in PollBots |-> NoHook]
  /\ tick = IdleTick
  /\ runs = [r \in Runs |-> FreeRun]
  /\ plog = NoError

NextCache ==
  \/ \E c \in Callers, k \in Keys : Get(c, k)
  \/ \E v \in Values, k \in Keys : Set(v, k)
  \/ \E k \in Keys : Delete(k)
  \/ Clear
  \/ \E f \in Slots, v \in Values : FetchResolve(f, v)
  \/ \E f \in Slots : FetchReject(f)
  \/ \E f \in Slots, v \in Values : RefreshResolve(f, v)
  \/ \E f \in Slots : RefreshReject(f)

SpecCache == Init /\ [][NextCache]_vars

\* the repository's methods run by call slot c; a call is started only while
\* the subject's stored version is below cap
RepoStep(c, cap) ==
  \/ \E b \in Bots, p \in Payloads : Create(c, b, p)
  \/ \E b \in Bots, p \in Payloads : UpdateStart(c, b, p, cap)
  \/ UpdateWrite(c)
  \/ UpdateReturn(c)
  \/ \E b \in Bots : SetWebhookFailedStart(c, b, cap)
  \/ SetWebhookFailedWrite(c)
  \/ SetWebhookFailedReturn(c)

\* the store serving the version lookups and their responses arriving
FetcherStep ==
  \/ \E f \in Slots : FetcherRead(f)
  \/ \E f \in Slots : VersionFetched(f)
  \/ \E f \in Slots : VersionRefreshed(f)

\* one caller that awaits each repository call before making the next
NextSeq == RepoStep(1, MaxVersion) \/ FetcherStep

SpecSeq == Init /\ [][NextSeq]_vars

\* concurrent repository calls through one repository instance
NextRepo == (\E c \in Callers : RepoStep(c, MaxRaceVersion)) \/ FetcherStep

SpecRepo == Init /\ [][NextRepo]_vars

\* the timestamp-ordered methods run by call slot c next to the versioned
\* ones; the caller got its response one tick after its call
TimingStep(c, cap) ==
  \/ \E b \in Bots, p \in Payloads, t \in Times, ch \in BOOLEAN :
       UpdateWithTimingStart(c, b, p, t, t + 1, ch, cap)
  \/ UpdateWithTimingFind(c)
  \/ \E b \in Bots, p \in Payloads, t \in Times :
       CreateWithTimingStart(c, b, p, t, t + 1)
  \/ CreateWithTimingInsert(c)
  \/ CreateWithTimingReturn(c)
  \/ UpdateWithTimingWrite(c)
  \/ UpdateWithTimingAfterWrite(c)
  \/ UpdateWithTimingReturn(c)
  \/ \E b \in Bots, p \in Payloads, t \in Times :
       ForceUpdateWithTimingStart(c, b, p, t, t + 1, cap)
  \/ ForceUpdateWithTimingWrite(c)
  \/ ForceUpdateWithTimingAfterWrite(c)
  \/ ForceUpdateWithTimingReturn(c)

\* one caller that awaits each repository call, versioned or timed, before
\* making the next
NextTiming ==
  \/ RepoStep(1, MaxTimedVersion)
  \/ TimingStep(1, MaxTimedVersion)
  \/ FetcherStep

SpecTiming == Init /\ [][NextTiming]_vars

\* setWebhookWithRetry() calls against an arbitrary provider
NextRetry ==
  \/ \E c \in Callers, p \in Payloads : SetWebhookWithRetry(c, p)
  \/ \E c \in Callers, result \in Bodies : ProviderResponds(c, result)
  \/ \E c \in Callers : ProviderFails(c)
  \/ \E c \in Callers : RateLimitSleepDone(c)
  \/ \E c \in Callers : BackoffSleepDone(c)

SpecRetry == Init /\ [][NextRetry]_vars

\* the steps of the repository methods that ensureWebhook() is waiting for
EnsureRepoStep(c) ==
  \/ SetWebhookFailedWrite(c)
  \/ SetWebhookFailedReturn(c)
  \/ UpdateWithTimingFind(c)
  \/ CreateWithTimingInsert(c)
  \/ CreateWithTimingReturn(c)
  \/ UpdateWithTimingWrite(c)
  \/ UpdateWithTimingAfterWrite(c)
  \/ UpdateWithTimingReturn(c)

\* ensureWebhook() run by call slot c against an arbitrary provider
EnsureStep(c, cap) ==
  \/ \E b \in Bots, p \in Payloads : EnsureWebhook(c, b, p, cap)
  \/ \E result \in Bodies : ProviderResponds(c, result)
  \/ ProviderFails(c)
  \/ RateLimitSleepDone(c)
  \/ BackoffSleepDone(c)
  \/ EnsureFailedReturn(c)
  \/ EnsureUpdated(c)
  \/ EnsureReread(c)
  \/ EnsureRepoStep(c)

\* One caller that awaits each ensureWebhook() before making the next. With
\* no other writer the record cannot change between a conflict and the
\* re-read, so the forced write (ForceUpdateWithTiming*, EnsureForced) never
\* starts and is left out of this specification.
NextEnsure ==
  \/ EnsureStep(1, MaxEnsureVersion)
  \/ FetcherStep
  \/ Tick

SpecEnsure == Init /\ [][NextEnsure]_vars

\* the forced write that ensureWebhook() is waiting for
EnsureForceStep(c) ==
  \/ ForceUpdateWithTimingWrite(c)
  \/ ForceUpdateWithTimingAfterWrite(c)
  \/ ForceUpdateWithTimingReturn(c)
  \/ EnsureForced(c)

\* another client of the same repository that calls forceUpdateWithTiming()
\* with timestamps of its own
ForceWriterStep(c, cap) ==
  \/ \E b \in Bots, p \in Payloads, t \in Times :
       ForceUpdateWithTimingStart(c, b, p, t, t + 1, cap)
  \/ ForceUpdateWithTimingWrite(c)
  \/ ForceUpdateWithTimingAfterWrite(c)
  \/ ForceUpdateWithTimingReturn(c)

\* ensureWebhook() against a provider that accepts every registration, up to
\* the forced write
EnsureAcceptedStep(c, cap) ==
  \/ \E b \in Bots, p \in Payloads : EnsureWebhook(c, b, p, cap)
  \/ ProviderResponds(c, WasSetBody)
  \/ UpdateWithTimingFind(c)
  \/ CreateWithTimingInsert(c)
  \/ CreateWithTimingReturn(c)
  \/ UpdateWithTimingWrite(c)
  \/ UpdateWithTimingAfterWrite(c)
  \/ UpdateWithTimingReturn(c)
  \/ EnsureUpdated(c)
  \/ EnsureReread(c)

\* ensureWebhook() calls of caller 1, awaited one after the other, next to
\* caller 2 writing the subject's record through forceUpdateWithTiming()
NextForce ==
  \/ EnsureAcceptedStep(1, MaxForceVersion)
  \/ EnsureForceStep(1)
  \/ ForceWriterStep(2, MaxForceVersion)
  \/ FetcherStep
  \/ Tick

SpecForce == Init /\ [][NextForce]_vars

\* ensureWebhook() calls by every caller at once, against a provider that
\* accepts every registration. The forced write (ForceUpdateWithTiming*,
\* EnsureForced) is left out: C29_NoOlderCallWins shows that it never starts.
NextRace ==
  \/ \E c \in Callers : EnsureAcceptedStep(c, MaxForceVersion)
  \/ FetcherStep
  \/ Tick

SpecRace == Init /\ [][NextRace]_vars

\* awaited ensureWebhook() calls of one caller against a store whose calls
\* may fail
NextFault ==
  \/ NextEnsure
  \/ TimedStoreError(1)
  \/ EnsureWriteThrew(1)

SpecFault == Init /\ [][NextFault]_vars

\* start() and stop() run by call slot c
LifecycleStep(c) ==
  \/ PollerStart(c)
  \/ PollerStarted(c)
  \/ PollerStop(c)
  \/ PollerStopped(c)

\* start() and stop() calls in any order, also while an earlier one awaits
NextLifecycle ==
  \/ \E c \in Callers : LifecycleStep(c)
  \/ InnerStopped

SpecLifecycle == Init /\ [][NextLifecycle]_vars

\* a tick of the inner poller: fetchData() and what serves it; the provider
\* answers getWebhookInfo() with one of `bodies` or not at all
TickStep(bodies) ==
  \/ PollTick
  \/ \E crash \in BOOLEAN : TickListed(crash)
  \/ TickListFailed
  \/ \E body \in bodies \cup {NullBody}, crash \in BOOLEAN :
       TickInfo(body, crash)
  \/ \E f \in Slots : HooksRead(f)
  \/ \E f \in Slots : HooksFetched(f)
  \/ \E f \in Slots : HooksRefreshed(f)
  \/ \E f \in Slots : HooksFetchFailed(f)
  \/ \E f \in Slots : HooksRefreshFailed(f)

\* the onData() runs
RunStep ==
  \/ \E r \in Runs, crash \in BOOLEAN : RunUpdated(r, crash)
  \/ \E r \in Runs, crash \in BOOLEAN : RunUpdateFailed(r, crash)

\* The reconciliation loop once started: the ticks of the inner poller, the
\* onData() runs, and the repository's other clients. The interval is long
\* enough for the runs of a tick to end before the next tick.
NextPoller ==
  \/ PollerStart(1)
  \/ PollerStarted(1)
  \/ FreeRuns = Runs /\ TickStep(InfoBodies)
  \/ RunStep
  \/ \E b \in PollBots : UpsertHook(b, <<"message">>)
  \/ \E b \in PollBots : DeleteHook(b)

SpecPoller == Init /\ [][NextPoller]_vars

\* one caller that awaits each repository call, and another process that
\* writes the record between those calls
NextExternal ==
  \/ RepoStep(1, MaxVersion)
  \/ FetcherStep
  \/ \E b \in Bots : ExternalWrite(b, MaxVersion)

SpecExternal == Init /\ [][NextExternal]_vars

\* create() and update() run by call slot c
UpdateOnlyStep(c, cap) ==
  \/ \E b \in Bots, p \in Payloads : Create(c, b, p)
  \/ \E b \in Bots, p \in Payloads : UpdateStart(c, b, p, cap)
  \/ UpdateWrite(c)
  \/ UpdateReturn(c)

\* One caller that awaits each call and calls update() again and again; the
\* store answers every lookup, and every call in progress goes on.
NextAgain == UpdateOnlyStep(1, MaxVersion) \/ FetcherStep

SpecAgain ==
  /\ Init
  /\ [][NextAgain]_vars
  /\ WF_vars(FetcherStep)
  /\ WF_vars(UpdateWrite(1) \/ UpdateReturn(1))
  /\ SF_vars(\E b \in Bots, p \in Payloads : UpdateStart(1, b, p, MaxVersion))

\* detectWebhookChange() applied to an arbitrary body
InitDetect ==
  /\ cache = EmptyMap
  /\ inv = [i \in Slots |-> FreeSlot]
  /\ callers = [c \in Callers |-> IdleCaller]
  /\ lastOp = [op |-> "none", key |-> "", by |-> {}]
  /\ store = [b \in Bots |-> NoRecord]
  /\ rcalls = [c \in Callers |-> IdleCall]
  /\ hist = [b \in Bots |-> {}]
  /\ tcalls = [c \in Callers |-> IdleTCall]
  /\ clock = 1
  /\ probe \in {[NoProbe EXCEPT !.input = b] : b \in ProbeBodies}
  /\ poll = InitialPoll
  /\ pcalls = [c \in Callers |-> IdlePCall]
  /\ hooks = [b \in PollBots |-> NoHook]
  /\ tick = IdleTick
  /\ runs = [r \in Runs |-> FreeRun]
  /\ plog = NoError

NextDetect == DetectWebhookChange

SpecDetect == InitDetect /\ [][NextDetect]_vars

(* ======================= claims ======================= *)

\* the promise slot f is settled by this step
Settled(f) == inv[f].status # "free" /\ inv'[f].status = "free"

\* this step starts a foreground fetch for key k that caller c awaits
StartsFetch(c, k) ==
  \E f \in Slots :
    /\ inv[f].status = "free"
    /\ inv'[f].status = "pending" /\ inv'[f].kind = "fetch" /\ inv'[f].key = k
    /\ callers'[c].status = "awaiting" /\ callers'[c].inv = f

\* this step is get() by some caller on key k
IsGet(k) == lastOp'.op = "get" /\ lastOp'.key = k

(* ---- C1 ---- *)
\* C1: a record is created with version 1, every step that modifies a record
\* raises its version by exactly 1, and the version never decreases (awaited
\* create / update / setWebhookFailed calls, no other writer).
C1_VersionStep ==
  [][\A b \in Bots :
       IF store[b] = NoRecord
         THEN store'[b] = NoRecord \/ store'[b].version = 1
         ELSE /\ store'[b] # NoRecord
              /\ store'[b].version >= store[b].version
              /\ store'[b] # store[b] =>
                   store'[b].version = store[b].version + 1]_vars

\* create -> 1, update -> 2, setWebhookFailed -> 3, update -> 4 has happened
C1_Witness ==
  \E b \in Bots :
    /\ store[b].version = 4
    /\ hist[b] = {"create", "update", "setWebhookFailed"}
    /\ rcalls[1].op = "update" /\ rcalls[1].pc = "done" /\ rcalls[1].success

C3_NoLostUpdate ==
  \A c, d \in Callers :
    ( /\ c # d
      /\ rcalls[c].op = "update" /\ rcalls[d].op = "update"
      /\ rcalls[c].pc = "done" /\ rcalls[d].pc = "done"
      /\ rcalls[c].botId = rcalls[d].botId
      /\ rcalls[c].raced > 0 /\ rcalls[c].raced = rcalls[d].raced )
    => /\ rcalls[c].success # rcalls[d].success
       /\ store[rcalls[c].botId].version = rcalls[c].raced + 1
       /\ rcalls[c].success =>
            /\ store[rcalls[c].botId].webhookUrl = rcalls[c].payload.webhookUrl
            /\ store[rcalls[c].botId].secretToken = rcalls[c].payload.secretToken

(* ---- C4 ---- *)
\* C4: a get() issued for a key whose first fetch is still pending starts no
\* further fetcher invocation and awaits that same fetch; when the fetch
\* resolves, every caller awaiting it receives the one resolved value.
C4_Dedup ==
  [][\A k \in Keys :
       /\ ( IsGet(k) /\ k \in DOMAIN cache /\ cache[k].promise # 0 )
          => /\ inv' = inv
             /\ \A c \in lastOp'.by :
                  /\ callers'[c].status = "awaiting"
                  /\ callers'[c].inv = cache[k].promise
       /\ \A f \in Slots :
            ( Settled(f) /\ lastOp'.op = "fetched" /\ inv[f].key = k )
            => \A c \in Callers :
                 ( callers[c].status = "awaiting" /\ callers[c].inv = f )
                 => /\ callers'[c].status = "returned"
                    /\ callers'[c].value = cache'[k].data]_vars

\* one fetch has just resolved for two callers at once
C4_Witness ==
  /\ lastOp.op = "fetched"
  /\ Cardinality(lastOp.by) >= 2
  /\ \A c \in lastOp.by :
       callers[c].status = "returned" /\ callers[c].value = cache[lastOp.key].data

(* ---- C5 ---- *)
\* C5: at most one fetcher invocation (fetch or refresh) is in flight per key.
C5_AtMostOneInFlight == \A k \in Keys : Cardinality(InFlight(k)) <= 1

(* ---- C6 ---- *)
\* C6: when a background refresh fails, the value cached before the refresh
\* is still the cached value and no get() caller is affected.
C6_RefreshFailureKeepsValue ==
  [][\A f \in Slots :
       ( Settled(f) /\ lastOp'.op = "refreshFailed" )
       => /\ inv[f].key \in DOMAIN cache'
          /\ cache'[inv[f].key].data = inv[f].before
          /\ callers' = callers]_vars

(* ---- C7 ---- *)
\* C7: when a fetch for a key fails, every caller awaiting it receives the
\* error and the key is evicted; the next get() for the key starts a new
\* fetcher invocation.
C7_ColdFailure ==
  [][/\ \A f \in Slots :
          ( Settled(f) /\ lastOp'.op = "fetchFailed" )
          => /\ inv[f].key \notin DOMAIN cache'
             /\ \A c \in Callers :
                  ( callers[c].status = "awaiting" /\ callers[c].inv = f )
                  => callers'[c].status = "threw"
     /\ \A k \in Keys :
          ( lastOp.op = "fetchFailed" /\ lastOp.key = k /\ IsGet(k) )
          => \A c \in lastOp'.by : StartsFetch(c, k)]_vars

\* a failed fetch has just rejected a waiting caller and evicted its key
C7_Witness ==
  /\ lastOp.op = "fetchFailed"
  /\ lastOp.by # {}
  /\ \A c \in lastOp.by : callers[c].status = "threw"
  /\ lastOp.key \notin DOMAIN cache

(* ---- C8 ---- *)
\* C8: get() on a key holding a cached value returns it at once and starts a
\* refresh only if no fetch or refresh is in flight for the key; after that
\* refresh succeeded the next get() returns the refreshed value.
C8_StaleWhileRevalidate ==
  [][\A k \in Keys :
       /\ ( IsGet(k) /\ k \in DOMAIN cache /\ cache[k].data # Null )
          => /\ \A c \in lastOp'.by :
                  /\ callers'[c].status = "returned"
                  /\ callers'[c].value = cache[k].data
             /\ inv' # inv => InFlight(k) = {}
       /\ ( lastOp.op = "refreshed" /\ lastOp.key = k /\ IsGet(k) )
          => \A c \in lastOp'.by :
               /\ callers'[c].status = "returned"
               /\ callers'[c].value = cache[k].data]_vars

(* ---- C9 ---- *)
\* C9: after a fetch resolved to null, the next get() for the key is served
\* from the cache: it returns null and calls no fetcher.
C9_NullIsCached ==
  [][\A k \in Keys :
       ( /\ lastOp.op = "fetched" /\ lastOp.key = k
         /\ k \in DOMAIN cache /\ cache[k].data = Null
         /\ IsGet(k) )
       => /\ \A f \in Slots : inv[f].status = "free" =>
               ~(inv'[f].status = "pending" /\ inv'[f].kind = "fetch")
          /\ \A c \in lastOp'.by :
               callers'[c].status = "returned" /\ callers'[c].value = Null]_vars

(* ---- C10 ---- *)
\* C10: set, delete and clear change the cache without calling the fetcher
\* and leave other keys alone; after set(v, k) the next get(k) returns v;
\* after delete(k) or clear() the next get(k) performs a foreground fetch.
C10_DirectManipulation ==
  [][/\ lastOp'.op \in {"set", "delete", "clear"}
          => /\ inv' = inv /\ callers' = callers
             /\ \A k \in Keys :
                  ( lastOp'.op # "clear" /\ k # lastOp'.key )
                  => /\ (k \in DOMAIN cache') = (k \in DOMAIN cache)
                     /\ k \in DOMAIN cache => cache'[k] = cache[k]
     /\ \A k \in Keys :
          /\ ( lastOp.op = "set" /\ lastOp.key = k /\ IsGet(k) )
             => \A c \in lastOp'.by :
                  /\ callers'[c].status = "returned"
                  /\ callers'[c].value = cache[k].data
          /\ ( /\ \/ lastOp.op = "delete" /\ lastOp.key = k
                  \/ lastOp.op = "clear"
               /\ IsGet(k) )
             => \A c \in lastOp'.by : StartsFetch(c, k)]_vars

(* ---- C11 ---- *)
\* C11: setWebhookWithRetry returns the first provider response that is not a
\* rate-limit (error_code 429) response and makes no call after it; a rate
\* limit followed by a success takes exactly 2 calls, an ok:false response
\* that is no rate limit is returned after exactly 1 call.
C11_FirstFinalResponse ==
  \A c \in Callers :
    LET t == tcalls[c]
    IN /\ \A i \in 1..Len(t.outs) :
            ( t.outs[i] # TransportFailure /\ t.outs[i].error_code # 429 )
            => /\ t.pc = "done" /\ t.result = t.outs[i]
               /\ Len(t.outs) = i /\ t.calls = i
       /\ ( t.pc = "done" /\ t.outs = <<RateLimitBody, WasSetBody>> )
          => t.calls = 2 /\ t.result = WasSetBody
       /\ ( t.pc = "done" /\ Len(t.outs) >= 1 /\ t.outs[1] = BadRequestBody )
          => t.calls = 1 /\ t.result = BadRequestBody

\* a call that was rate limited once and then succeeded has returned
C11_Witness ==
  \E c \in Callers :
    /\ tcalls[c].op = "setWebhookWithRetry" /\ tcalls[c].pc = "done"
    /\ tcalls[c].outs = <<RateLimitBody, WasSetBody>>
    /\ tcalls[c].result = WasSetBody

(* ---- C12 ---- *)
\* the outcome is a rate-limit response or a transport failure
C12_Retried(o) == o = TransportFailure \/ o.error_code = 429

\* how far a call has got: every step of a running call moves it forward
C12_Rank(t) ==
  3 * t.calls + (CASE t.pc = "fetch" -> 0
                   [] t.pc \in {"rateLimited", "backoff"} -> 1
                   [] OTHER -> 2)

\* C12: whatever the provider answers, setWebhookWithRetry makes at most 3
\* calls and every step brings it nearer to its return; rate limits and
\* transport failures use the same budget; it returns null exactly when all 3
\* calls ended in a rate limit or a transport failure.
C12_BoundedRetry ==
  /\ [](\A c \in Callers :
          LET t == tcalls[c]
          IN /\ t.calls <= 3 /\ Len(t.outs) <= t.calls
             /\ t.pc = "done" =>
                  /\ t.calls = Len(t.outs)
                  /\ (t.result = NullBody) <=>
                       /\ t.calls = 3
                       /\ \A i \in 1..3 : C12_Retried(t.outs[i]))
  /\ [][\A c \in Callers :
          ( tcalls[c].pc \notin {"idle", "done"} /\ tcalls'[c] # tcalls[c] )
          => /\ C12_Rank(tcalls'[c]) > C12_Rank(tcalls[c])
             /\ C12_Rank(tcalls'[c]) <= 11]_vars

\* three transport failures, then null
C12_Witness ==
  \E c \in Callers :
    /\ tcalls[c].pc = "done" /\ tcalls[c].result = NullBody
    /\ tcalls[c].calls = 3
    /\ tcalls[c].outs = <<TransportFailure, TransportFailure, TransportFailure>>

(* ---- C13 ---- *)
\* the description (in lower case) contains the phrase
C13_Says(body, phrase) ==
  /\ body.description # NoDescription
  /\ Includes(ToLowerCase(body.description), phrase)

C14_TimingConflict ==
  [][\A c \in Callers :
       LET b == rcalls[c].botId
           t == rcalls[c].apiCallAt
       IN /\ ( /\ rcalls[c].op = "updateWithTiming"
               /\ rcalls[c].pc = "updateOne" /\ rcalls'[c].pc = "updated"
               /\ store[b] # NoRecord )
             => /\ (store'[b] # store[b]) <=>
                     (store[b].apiCallAt = 0 \/ store[b].apiCallAt < t)
                /\ rcalls'[c].modified <=> (store'[b] # store[b])
                /\ store'[b] # store[b] =>
                     /\ store'[b].apiCallAt = t
                     /\ store'[b].webhookUrl = rcalls[c].payload.webhookUrl
                     /\ store'[b].secretToken = rcalls[c].payload.secretToken
          /\ ( /\ rcalls[c].op = "updateWithTiming"
               /\ rcalls[c].pc = "updated" /\ rcalls'[c].pc # "updated"
               /\ ~rcalls[c].modified )
             => /\ store' = store
                /\ rcalls'[c].pc = "done"
                /\ ~rcalls'[c].success /\ rcalls'[c].conflict
                /\ rcalls'[c].reason = "newer_api_call_exists"]_vars

\* a call that was not newer than the stored one has returned the conflict
C14_Witness ==
  \E c \in Callers :
    /\ rcalls[c].op = "updateWithTiming" /\ rcalls[c].pc = "done"
    /\ rcalls[c].conflict /\ ~rcalls[c].success /\ ~rcalls[c].modified
    /\ rcalls[c].reason = "newer_api_call_exists"
    /\ store[rcalls[c].botId].apiCallAt = MaxTime

(* ---- C15 ---- *)
\* C15: updateWithTiming (webhookChanged=true) on a subject without a record
\* creates the record with version 1, failed=false and the caller's
\* webhookUrl, secretToken, apiCallAt and apiRespAt, and returns success=true
\* without a conflict flag.
C15_TimedCreate ==
  [][\A c \in Callers :
       LET b == rcalls[c].botId
       IN /\ ( /\ rcalls[c].op = "updateWithTiming"
               /\ rcalls[c].pc = "insert" /\ rcalls'[c].pc = "inserted"
               /\ store[b] = NoRecord )
             => /\ store'[b] =
                     [version |-> 1, failed |-> FALSE,
                      webhookUrl |-> rcalls[c].payload.webhookUrl,
                      secretToken |-> rcalls[c].payload.secretToken,
                      apiCallAt |-> rcalls[c].apiCallAt,
                      apiRespAt |-> rcalls[c].apiRespAt]
                /\ rcalls'[c].modified
          /\ ( /\ rcalls[c].op = "updateWithTiming"
               /\ rcalls[c].pc = "inserted" /\ rcalls'[c].pc # "inserted"
               /\ rcalls[c].modified )
             => /\ rcalls'[c].pc = "done"
                /\ rcalls'[c].success /\ ~rcalls'[c].conflict
                /\ store' = store]_vars

\* updateWithTiming has created the subject's record and returned success
C15_Witness ==
  \E c \in Callers :
    /\ rcalls[c].op = "updateWithTiming" /\ rcalls[c].pc = "done"
    /\ rcalls[c].success /\ rcalls[c].modified
    /\ hist[rcalls[c].botId] = {"updateWithTiming"}
    /\ store[rcalls[c].botId].version = 1
    /\ store[rcalls[c].botId].apiCallAt # 0

(* ---- C16 ---- *)
\* C16: every write that updateWithTiming or forceUpdateWithTiming applies to
\* an existing record leaves the stored version an integer exactly 1 greater
\* than before.
C16_TimedVersionStep ==
  [][\A c \in Callers :
       LET b == rcalls[c].botId
       IN ( /\ rcalls[c].op \in {"updateWithTiming", "forceUpdateWithTiming"}
            /\ rcalls[c].pc = "updateOne" /\ rcalls'[c].pc = "updated"
            /\ rcalls'[c].modified )
          => /\ store'[b].version >= 1
             /\ store'[b].version = store[b].version + 1]_vars

(* ---- C17 ---- *)
\* the repository call that took a step
C17_Stepped(c) ==
  rcalls'[c].op # rcalls[c].op \/ rcalls'[c].pc # rcalls[c].pc

\* C17: whenever a record is written, it is left failed=true exactly if the
\* writer is setWebhookFailed (whose write also raises version by 1); every
\* write of create, update, updateWithTiming, forceUpdateWithTiming leaves
\* failed=false. So failed is true only if the last write was
\* setWebhookFailed's.
C17_FailedFlag ==
  [][\A b \in Bots :
       store'[b] # store[b] =>
         \E c \in Callers :
           /\ C17_Stepped(c) /\ rcalls'[c].botId = b /\ rcalls'[c].modified
           /\ store'[b].failed <=> (rcalls'[c].op = "setWebhookFailed")
           /\ store'[b].failed => store'[b].version = store[b].version + 1]_vars

\* a record marked failed has been written by updateWithTiming and is no
\* longer failed
C17_Witness ==
  \E c \in Callers :
    /\ rcalls[c].op = "updateWithTiming" /\ rcalls[c].pc = "done"
    /\ rcalls[c].success /\ rcalls[c].modified
    /\ "setWebhookFailed" \in hist[rcalls[c].botId]
    /\ "updateWithTiming" \in hist[rcalls[c].botId]
    /\ ~store[rcalls[c].botId].failed

(* ---- C18 ---- *)
\* C18: a step of setWebhookFailed changes a record only by setting
\* failed=true and raising version by 1 (webhookUrl, secretToken and the
\* other fields stay); on a subject without a record it changes nothing,
\* creates nothing and raises no error.
C18_FailedFrame ==
  [][\A c \in Callers :
       LET b == rcalls'[c].botId
       IN ( rcalls'[c].op = "setWebhookFailed" /\ C17_Stepped(c) )
          => /\ store[b] = NoRecord =>
                  /\ store' = store
                  /\ rcalls'[c].pc # "threw"
             /\ store' # store =>
                  /\ store'[b] = [store[b] EXCEPT !.failed = TRUE,
                                                  !.version = @ + 1]
                  /\ \A x \in Bots \ {b} : store'[x] = store[x]]_vars

\* setWebhookFailed has marked a created record failed
C18_Witness ==
  \E c \in Callers :
    /\ rcalls[c].op = "setWebhookFailed" /\ rcalls[c].pc = "done"
    /\ hist[rcalls[c].botId] = {"create", "setWebhookFailed"}
    /\ store[rcalls[c].botId].failed
    /\ store[rcalls[c].botId].version = 2

(* ---- C19 ---- *)
\* C19: create() on a subject that has a record fails with the duplicate
\* error, createWithTiming returns success=false, and in both cases the
\* existing record is unchanged.
C19_DuplicateSubject ==
  [][\A c \in Callers :
       LET b == rcalls'[c].botId
       IN /\ ( /\ rcalls'[c].op = "create" /\ C17_Stepped(c)
               /\ store[b] # NoRecord )
             => rcalls'[c].pc = "threw" /\ store' = store
          /\ ( /\ rcalls[c].op = "createWithTiming"
               /\ rcalls[c].pc = "insert" /\ rcalls'[c].pc = "inserted"
               /\ store[b] # NoRecord )
             => ~rcalls'[c].modified /\ store' = store
          /\ ( /\ rcalls[c].op = "createWithTiming"
               /\ rcalls[c].pc = "inserted" /\ rcalls'[c].pc # "inserted"
               /\ ~rcalls[c].modified )
             => /\ rcalls'[c].pc = "done" /\ ~rcalls'[c].success
                /\ store' = store]_vars

\* createWithTiming on an existing subject has returned success=false
C19_Witness ==
  \E c \in Callers :
    /\ rcalls[c].op = "createWithTiming" /\ rcalls[c].pc = "done"
    /\ ~rcalls[c].success /\ ~rcalls[c].modified
    /\ store[rcalls[c].botId] # NoRecord

(* ---- C20 ---- *)
\* C20: when setWebhookWithRetry returned null or a result with ok=false,
\* ensureWebhook marks the subject failed (an existing record ends with
\* failed=true) and returns that result.
C20_FailureMarked ==
  [][\A c \in Callers :
       LET t == tcalls[c]
       IN ( /\ t.op = "ensureWebhook" /\ t.pc = "markFailed"
            /\ tcalls'[c].pc # "markFailed" )
          => /\ tcalls'[c].pc = "done"
             /\ tcalls'[c].result = t.result
             /\ store'[t.botId] # NoRecord => store'[t.botId].failed]_vars

(* ---- C21 ---- *)
\* an ensureWebhook() call is waiting for the provider
C21_InRetry(t) ==
  t.op = "ensureWebhook" /\ t.pc \in {"fetch", "rateLimited", "backoff"}

\* C21: when the body that ends the retry loop is ok and detectWebhookChange
\* says "no change", ensureWebhook() returns that body in the same step and
\* enters no repository method; from its entry to that return the store, the
\* history of writes and the cached version are untouched (no record created
\* for an unknown subject, an existing record left as it is).
C21_NoChangeNoWrite ==
  [][\A c \in Callers :
       C21_InRetry(tcalls[c]) /\ tcalls'[c] # tcalls[c] =>
         /\ C21_InRetry(tcalls'[c]) => store' = store /\ hist' = hist
         /\ LET body == tcalls'[c].result
            IN ~C21_InRetry(tcalls'[c]) /\ body # NullBody /\ body.ok
                 /\ ~detectWebhookChange(body) =>
                   /\ tcalls'[c].pc = "done"
                   /\ body \in Bodies
                   /\ store' = store /\ hist' = hist
                   /\ rcalls' = rcalls /\ cache' = cache /\ inv' = inv]_vars

\* an "already set" answer was returned for a subject that has a record
C21_Witness ==
  \E c \in Callers :
    /\ tcalls[c].op = "ensureWebhook" /\ tcalls[c].pc = "done"
    /\ tcalls[c].result = AlreadySetBody
    /\ store[tcalls[c].botId] # NoRecord
    /\ rcalls[c] = IdleCall

(* ---- C22 ---- *)
\* C22: ensureWebhook() goes on to re-read the record exactly when
\* updateWithTiming() returned the newer_api_call_exists conflict; with the
\* re-read record it calls forceUpdateWithTiming() (with its own url, token and
\* timestamps) only if the stored apiCallAt exists and is strictly older than
\* its own apiCallAt, and otherwise returns without entering the repository
\* and without a write; and forceUpdateWithTiming() is entered from nowhere
\* else. Both ways the call ends by returning the provider's ok result.
C22_ConflictResolution ==
  [][\A c \in Callers :
       LET t == tcalls[c]
           b == t.botId
       IN t.op = "ensureWebhook" /\ tcalls'[c] # t =>
            /\ t.pc = "updating" =>
                 (tcalls'[c].pc = "reread" <=>
                    /\ ~rcalls[c].success /\ rcalls[c].conflict
                    /\ rcalls[c].reason = "newer_api_call_exists")
            /\ t.pc = "reread" =>
                 IF /\ store[b] # NoRecord
                    /\ store[b].apiCallAt # 0
                    /\ store[b].apiCallAt < t.apiCallAt
                   THEN /\ tcalls'[c].pc = "forcing"
                        /\ rcalls'[c].op = "forceUpdateWithTiming"
                        /\ rcalls'[c].pc = "updateOne"
                        /\ rcalls'[c].botId = b
                        /\ rcalls'[c].payload = t.payload
                        /\ rcalls'[c].apiCallAt = t.apiCallAt
                        /\ rcalls'[c].apiRespAt = t.apiRespAt
                        /\ store' = store
                   ELSE /\ tcalls'[c].pc = "done"
                        /\ tcalls'[c].result = t.result /\ t.result.ok
                        /\ rcalls'[c] = rcalls[c]
                        /\ store' = store /\ hist' = hist
            /\ tcalls'[c].pc = "forcing" => t.pc = "reread"
            /\ t.pc = "forcing" =>
                 /\ tcalls'[c].pc = "done"
                 /\ tcalls'[c].result = t.result /\ t.result.ok]_vars

\* the forced write of an ensureWebhook() call has been applied
C22_Witness ==
  \E c \in Callers :
    /\ tcalls[c].op = "ensureWebhook" /\ tcalls[c].pc = "forcing"
    /\ rcalls[c].pc = "updated" /\ rcalls[c].modified
    /\ store[tcalls[c].botId].apiCallAt = tcalls[c].apiCallAt
    /\ store[tcalls[c].botId].webhookUrl = tcalls[c].payload.webhookUrl

(* ---- C23 ---- *)
\* C23: once the provider has answered ok and the answer was classified as a
\* change, ensureWebhook() ends by returning that answer whatever becomes of
\* the store write: it never ends with an error.
C23_WriteFailureTolerated ==
  [][\A c \in Callers :
       LET t == tcalls[c]
       IN /\ t.op = "ensureWebhook"
          /\ t.pc \in {"updating", "reread", "forcing"}
          /\ tcalls'[c].pc \notin {"updating", "reread", "forcing"}
          => /\ tcalls'[c].pc = "done"
             /\ tcalls'[c].result = t.result
             /\ t.result.ok]_vars

(* ---- C24 ---- *)
\* this step is the entry of an `op` call by c into HookStatePoller
PollerCalled(c, op) ==
  /\ pcalls[c].pc \in {"idle", "done"}
  /\ pcalls'[c] # pcalls[c]
  /\ pcalls'[c].op = op

\* C24: start() called while the state is starting or running, and stop()
\* called while the state is stopping or stopped, returns at once and leaves
\* the state, the onData subscription and the inner poller as they were.
C24_IdempotentStartStop ==
  [][\A c \in Callers :
       /\ ( PollerCalled(c, "start") /\ poll.state \in {"starting", "running"} )
          => poll' = poll /\ pcalls'[c].pc = "done"
       /\ ( PollerCalled(c, "stop") /\ poll.state \in {"stopping", "stopped"} )
          => poll' = poll /\ pcalls'[c].pc = "done"]_vars

\* a start() has returned at its guard while an earlier start() is awaiting
C24_Witness ==
  \E c, d \in Callers :
    /\ pcalls[c].op = "start" /\ pcalls[c].pc = "done" /\ pcalls[c].noop
    /\ pcalls[d].op = "start" /\ pcalls[d].pc = "awaiting"
    /\ poll.state = "starting" /\ Cardinality(poll.subs) = 1

(* ---- C25 ---- *)
\* C25: an error during a reconciliation tick (the subject list cannot be
\* fetched, getWebhookInfo() yields null, or a store write fails) is logged
\* and does not stop the loop.
C25_TickErrorLogged ==
  plog.error \in {"getAllHooks", "getWebhookInfo", "update"}
    => plog.by = "errorHandler" /\ ~poll.crashed

(* ---- C26 ---- *)
\* the record doc holds the remote values of webhook info i
HoldsRemote(doc, i) ==
  doc.mirror = [url |-> i.url,
                   hasCustomCertificate |-> i.has_custom_certificate,
                   pendingUpdateCount |-> i.pending_update_count,
                   maxConnections |-> i.max_connections,
                   ipAddress |-> i.ip_address]

\* this step applies the write of onData() run r for its current pair
RunWrote(r) ==
  /\ runs[r].pc = "update"
  /\ runs'[r] # runs[r]
  /\ plog'.error # "update"

GreaterVersion(cv, sv) ==
  IF cv = Null \/ sv = Null THEN FALSE
  ELSE IF cv >= 0 /\ sv >= 0 THEN cv > sv
  ELSE IF cv < 0 /\ sv < 0 THEN Magnitude(cv) > Magnitude(sv)
  ELSE FALSE

\* this step is the return of a repository write by c with success
WriteReturned(c) ==
  /\ rcalls[c].pc # "done" /\ rcalls'[c].pc = "done"
  /\ rcalls'[c].success

\* C27: when a repository write has returned, the version cached for the
\* subject is not greater than the stored version; after a successful
\* updateWithTiming() or forceUpdateWithTiming() on a subject whose version
\* was not cached before (getCurrentVersion() gave it the stored version),
\* the cached version equals the stored one.
C27_CachedVersionNotAhead ==
  [][\A c \in Callers :
       WriteReturned(c) =>
         LET b == rcalls'[c].botId
         IN /\ ( b \in DOMAIN cache' /\ store'[b] # NoRecord )
               => ~GreaterVersion(cache'[b].data, store'[b].version)
            /\ ( /\ rcalls[c].op \in {"updateWithTiming",
                                      "forceUpdateWithTiming"}
                 /\ rcalls[c].pc = "version"
                 /\ callers[c].value = store[b].version )
               => /\ b \in DOMAIN cache'
                  /\ cache'[b].data = store'[b].version]_vars

(* ---- C28 ---- *)
\* C28: with one caller awaiting each call and no other writer, a background
\* version refresh never replaces a cached version that equals the stored one
\* by a different one, and the conditional write of every update() and
\* setWebhookFailed() that holds a cached version of an existing subject is
\* applied (so update() returns success=true).
C28_RefreshKeepsNewerVersion ==
  [][/\ \A f \in Slots :
          ( /\ Settled(f) /\ inv[f].kind = "refresh"
            /\ inv[f].key \in DOMAIN cache
            /\ store[inv[f].key] # NoRecord
            /\ cache[inv[f].key].data = store[inv[f].key].version )
          => /\ inv[f].key \in DOMAIN cache'
             /\ cache'[inv[f].key].data = store'[inv[f].key].version
     /\ \A c \in Callers :
          ( /\ rcalls[c].op \in {"update", "setWebhookFailed"}
            /\ rcalls[c].pc = "version" /\ rcalls'[c].pc # "version"
            /\ callers[c].value # Null
            /\ store[rcalls[c].botId] # NoRecord )
          => rcalls'[c].pc = "written" /\ rcalls'[c].modified
     /\ \A c \in Callers :
          ( /\ rcalls[c].op = "update"
            /\ rcalls[c].pc = "written" /\ rcalls'[c].pc = "done" )
          => rcalls'[c].success = rcalls[c].modified]_vars

(* ---- C29 ---- *)
\* C29: under any interleaving of ensureWebhook() calls on one subject the
\* stored apiCallAt never decreases, and the forced write after a conflict is
\* never started, so a write derived from an older API call never replaces a
\* record written from a newer one.
C29_NoOlderCallWins ==
  [][/\ \A b \in Bots :
          store[b] # NoRecord
          => /\ store'[b] # NoRecord
             /\ store'[b].apiCallAt >= store[b].apiCallAt
     /\ \A c \in Callers : tcalls'[c].pc # "forcing"]_vars

\* a call has lost to a newer one and is about to re-read the record while
\* the other caller's newer call is stored
C29_Witness ==
  \E c, d \in Callers :
    /\ c # d
    /\ tcalls[c].pc = "reread"
    /\ tcalls[d].op = "ensureWebhook" /\ tcalls[d].pc = "done"
    /\ tcalls[d].botId = tcalls[c].botId
    /\ store[tcalls[c].botId].apiCallAt > tcalls[c].apiCallAt

(* ---- C30 ---- *)
\* C30: when delete(k) or clear() has removed key k while a fetch or a
\* background refresh for k is in flight, the completion of that fetch or
\* refresh leaves k absent.
C30_NoResurrection ==
  [][\A f \in Slots :
       ( Settled(f) /\ inv[f].key \notin DOMAIN cache )
       => inv[f].key \notin DOMAIN cache']_vars

(* ---- C31 ---- *)
\* C31: a write of the reconciliation loop never sets the deleted flag of a
\* record marked deleted by delete() back to false, whether the tick's list
\* was read from the store or served stale by the cache of getAllHooks.
C31_DeletedStaysDeleted ==
  [][\A r \in Runs :
       RunWrote(r) =>
         LET b == runs[r].pairs[runs[r].k].botId
         IN ( hooks[b] # NoHook /\ hooks[b].deleted ) => hooks'[b].deleted]_vars

(* ---- C32 ---- *)
\* C32: under any interleaving of start() and stop() calls, also ones made
\* while an earlier call is awaiting, at most one onData subscription is
\* active, so that the data of a tick starts at most one onData() run.
C32_AtMostOneSubscription == Cardinality(poll.subs) <= 1

(* ---- C33 ---- *)
\* the pair p is written, or is held by an onData() run that has yet to
\* write it
WrittenOrPending(p) ==
  \/ HoldsRemote(hooks'[p.botId], p.info[1])
  \/ \E r \in Runs :
       /\ runs'[r].pc = "update"
       /\ \E j \in runs'[r].k..Len(runs'[r].pairs) : runs'[r].pairs[j] = p

\* C33: when a tick fails at the k-th subject (getWebhookInfo() yields null
\* for it, its webhook info is missing, or its write fails), only the pairs
\* from k on are abandoned: the subjects handled before it in that tick are
\* written to the store.
C33_EarlierPairsWritten ==
  [][/\ \A r \in Runs :
          ( /\ runs[r].pc = "update" /\ runs'[r] = FreeRun
            /\ plog'.by = "unhandled" )
          => LET pairs == runs[r].pairs
                 k == IF plog'.error = "update" THEN runs[r].k
                      ELSE runs[r].k + 1
             IN \A j \in 1..(k - 1) :
                  HoldsRemote(hooks'[pairs[j].botId], pairs[j].info[1])
     /\ ( tick.pc = "info" /\ plog' = Logged("getWebhookInfo") )
        => \A j \in 1..Len(tick.pairs) :
             tick.pairs[j].info # Undefined => WrittenOrPending(tick.pairs[j])]_vars

(* ---- C34 ---- *)
\* this step is the entry of call slot c into update() or setWebhookFailed()
VersionedCalled(c) ==
  /\ rcalls[c].pc \in {"idle", "done", "threw"}
  /\ rcalls'[c].pc = "version"
  /\ rcalls'[c].op \in {"update", "setWebhookFailed"}

C35_LostInsertRetriesAsUpdate ==
  [][\A c \in Callers :
       LET b == rcalls[c].botId
           stepped == rcalls'[c] # rcalls[c]
       IN rcalls[c].op = "updateWithTiming"
          => /\ ( rcalls[c].pc = "inserted" /\ ~rcalls[c].modified )
                => /\ store[b] # NoRecord
                   /\ stepped => rcalls'[c].pc = "find"
             /\ ( rcalls[c].pc = "find" /\ store[b] # NoRecord /\ stepped )
                => rcalls'[c].pc = "updateOne"
             /\ rcalls'[c].pc # "threw"
             /\ ( rcalls[c].pc # "done" /\ rcalls'[c].pc = "done" )
                => \/ rcalls'[c].success
                   \/ /\ rcalls'[c].conflict
                      /\ rcalls'[c].reason = "newer_api_call_exists"
             /\ store[b] # NoRecord => store'[b] # NoRecord]_vars

\* the insert of one updateWithTiming() has just lost to the insert of
\* another one for the same subject
C35_Witness ==
  \E c, d \in Callers :
    /\ c # d
    /\ rcalls[c].op = "updateWithTiming" /\ rcalls[c].pc = "inserted"
    /\ ~rcalls[c].modified
    /\ rcalls[d].op = "updateWithTiming" /\ rcalls[d].botId = rcalls[c].botId
    /\ rcalls[d].pc = "inserted" /\ rcalls[d].modified
    /\ store[rcalls[c].botId].version = 1

(* ---- C36 ---- *)
\* C36: update() on a subject with no cached version and no record inserts
\* the record with version 1 and returns success=true; when update() calls
\* race on an unknown subject, none of them fails with the duplicate-key
\* error of the second insert.
C36_UnknownSubjectInserted ==
  [][\A c \in Callers :
       ( /\ rcalls[c].op = "update" /\ rcalls[c].pc = "version"
         /\ rcalls'[c].pc # "version"
         /\ callers[c].value = Null
         /\ \A d \in Callers : rcalls[d].op \in {"none", "update"} )
       => /\ rcalls'[c].pc = "written" /\ rcalls'[c].modified
          /\ store'[rcalls[c].botId] # NoRecord
          /\ store[rcalls[c].botId] = NoRecord
             => store'[rcalls[c].botId].version = 1]_vars

(* ---- C37 ---- *)
\* an update() of an existing subject has returned success=false
StaleFailed ==
  /\ rcalls[1].op = "update" /\ rcalls[1].pc = "done" /\ ~rcalls[1].success
  /\ store[rcalls[1].botId] # NoRecord

\* an update() has returned success=true and the cached version is the
\* stored one
Recovered ==
  /\ rcalls[1].op = "update" /\ rcalls[1].pc = "done" /\ rcalls[1].success
  /\ rcalls[1].botId \in DOMAIN cache
  /\ cache[rcalls[1].botId].data = store[rcalls[1].botId].version

\* C37: after update() returned success=false on a stale cached version, with
\* no writer but the repeated update() calls, the background refresh brings
\* the cached version to the stored one and a repeated update() succeeds.
C37_StaleUpdateRecovers == StaleFailed ~> Recovered

\* update() has failed on a cached version that is behind the stored one
C37_Witness ==
  /\ StaleFailed
  /\ rcalls[1].botId \in DOMAIN cache
  /\ cache[rcalls[1].botId].data # Null
  /\ cache[rcalls[1].botId].data < store[rcalls[1].botId].version

(* ---- C38 ---- *)
\* C38: a value written with set() while a background refresh of the key is
\* in flight is still the cached value after that refresh has failed.
C38_SetSurvivesFailedRefresh ==
  [][\A f \in Slots :
       ( /\ lastOp.op = "set" /\ lastOp.key = inv[f].key
         /\ inv[f].kind = "refresh" /\ inv[f].status = "pending"
         /\ cache[inv[f].key].data # Null /\ Truthy(inv[f].before)
         /\ lastOp'.op = "refreshFailed" /\ inv'[f] = FreeSlot )
       => /\ inv[f].key \in DOMAIN cache'
          /\ cache'[inv[f].key].data = cache[inv[f].key].data]_vars

(* ---- C39 ---- *)
\* no start() or stop() call is awaiting
PollerQuiet == \A c \in Callers : pcalls[c].pc \in {"idle", "done"}

\* C39: whenever no start() or stop() call is in progress, state is 'running'
\* iff the inner poller is started and onData is subscribed, and once the
\* poller has left its initial state, state is 'stopped' iff the inner poller
\* is halted and onData is unsubscribed.
C39_StateAgreesWithPoller ==
  PollerQuiet =>
    /\ poll.state = "running" <=> ( poll.inner = "running" /\ poll.subs # {} )
    /\ poll.state # "initial" =>
         ( poll.state = "stopped" <=>
             ( poll.inner # "running" /\ poll.subs = {} ) )

(* ---- C40 ---- *)
\* C40: a cached value that is falsy but not null is returned by get(); a
\* get() of it while its refresh is in flight calls the fetcher no second
\* time; and it is still the cached value during its refresh and after that
\* refresh has failed.
C40_FalsyValueCached ==
  [][\A k \in Keys :
       ( k \in DOMAIN cache /\ cache[k].data # Null /\ ~Truthy(cache[k].data) )
       => /\ ( lastOp'.op = "get" /\ lastOp'.key = k )
             => /\ \A c \in lastOp'.by :
                     /\ callers'[c].status = "returned"
                     /\ callers'[c].value = cache[k].data
                /\ cache'[k].data = cache[k].data
                /\ InFlight(k) # {} => inv' = inv
          /\ ( lastOp'.op = "refreshFailed" /\ lastOp'.key = k )
             => cache'[k].data = cache[k].data]_vars

====
